---- MODULE Spec2Model ----
(***************************************************************************)
(* Progress store of extend-challenge-common: the user_goal_progress       *)
(* table, the statements PostgresGoalRepository and PostgresTxRepository   *)
(* run against it, and the row locks / transactions they run under.        *)
(*                                                                         *)
(* A timestamp is a tick of the clock `now`; DATE(t) is t \div TicksPerDay.*)
(* created_at and expires_at are never read or compared by any statement   *)
(* that writes a row, so the rows of the model do not carry them.          *)
(***************************************************************************)
EXTENDS Integers, Sequences, FiniteSets, TLC

\* ------------------------------------------------------------------ bounds
MaxTime == 2
TicksPerDay == 2
MaxProgress == 3
MaxBatch == 2
MaxStaged == 2

\* --------------------------------------------------------------- constants
NULL == -1

Users == {"u1", "u2"}
Goals == {"g1"}
Keys == Users \X Goals
Txs == {"t1", "t2"}

GoalStatusNotStarted == "not_started"
GoalStatusInProgress == "in_progress"
GoalStatusCompleted == "completed"
GoalStatusClaimed == "claimed"
GoalStatus == {GoalStatusNotStarted, GoalStatusInProgress, GoalStatusCompleted, GoalStatusClaimed}

ErrNone == "nil"
ErrCodeGoalNotCompleted == "GOAL_NOT_COMPLETED"
ErrCodeDatabaseError == "DATABASE_ERROR"
ErrNestedTx == "cannot begin nested transaction"

\* ------------------------------------------------------------------- rows
\* One row of user_goal_progress; exists = FALSE stands for "no row".
NoRow ==
  [exists |-> FALSE, challengeID |-> "", namespace |-> "", progress |-> 0,
   status |-> GoalStatusNotStarted, completedAt |-> NULL, claimedAt |-> NULL,
   updatedAt |-> NULL, isActive |-> TRUE, assignedAt |-> NULL]

EmptyTable == [k \in Keys |-> NoRow]

\* DATE(ts AT TIME ZONE 'UTC')
DateUTC(ts) == ts \div TicksPerDay

\* The table without check_claimed_implies_completed (for C10).
CheckStatusAndProgress(row) ==
  /\ row.status \in GoalStatus
  /\ row.progress >= 0

\* The table without check_progress_non_negative (for C32).
CheckStatusAndClaimed(row) ==
  /\ row.status \in GoalStatus
  /\ (row.claimedAt = NULL \/ row.completedAt # NULL)

\* CHECK constraints of the table: check_status, check_progress_non_negative,
\* check_claimed_implies_completed.
CheckConstraints(row) ==
  /\ row.status \in GoalStatus
  /\ row.progress >= 0
  /\ (row.claimedAt = NULL \/ row.completedAt # NULL)

\* Outcome of one SQL statement: the table it leaves and the rows it affected.
StmtOK(tbl, n) == [ok |-> TRUE, tbl |-> tbl, rows |-> n]
StmtFail(tbl) == [ok |-> FALSE, tbl |-> tbl, rows |-> 0]

\* ------------------------------------------------------- upsert statements
\* The tuple proposed for insertion by INSERT ... VALUES ($1..$7, NOW()) of
\* UpsertProgress / BatchUpsertProgress / the COPY merge: the columns not
\* listed take the table defaults (claimed_at NULL, is_active true,
\* assigned_at NULL).
UpsertProposed(u, t) ==
  [exists |-> TRUE, challengeID |-> u.challengeID, namespace |-> u.namespace,
   progress |-> u.progress, status |-> u.status, completedAt |-> u.completedAt,
   claimedAt |-> NULL, updatedAt |-> t, isActive |-> TRUE, assignedAt |-> NULL]

\* An upsert without the WHERE clause (for C3).
UpsertUnguarded(cur) == TRUE

\* A WHERE clause that protects completed rows instead of claimed ones (for
\* C39).
UpsertGuardsCompleted(cur) == cur.status # GoalStatusCompleted

\* WHERE clause of ON CONFLICT DO UPDATE in the upsert statements.
UpsertGuard(cur) == cur.status # GoalStatusClaimed

\* An upsert that adds the progress of the request to the row's (for C30).
UpsertAccumulating(cur, u, t) ==
  [cur EXCEPT !.progress = @ + u.progress, !.status = u.status,
              !.completedAt = u.completedAt, !.updatedAt = t]

\* ON CONFLICT (user_id, goal_id) DO UPDATE SET progress = EXCLUDED.progress,
\* status = EXCLUDED.status, completed_at = EXCLUDED.completed_at,
\* updated_at = NOW()
UpsertConflict(cur, u, t) ==
  [cur EXCEPT !.progress = u.progress, !.status = u.status,
              !.completedAt = u.completedAt, !.updatedAt = t]

\* One INSERT ... ON CONFLICT DO UPDATE over the rows `reqs`, taken in order.
\* `touched` are the keys this command already inserted or updated: PostgreSQL
\* refuses to affect such a row a second time. The proposed tuple is checked
\* against the CHECK constraints before the conflict is looked at. A failing
\* CHECK constraint or a second touch fails the whole statement, which then
\* leaves the table as it was.
RECURSIVE UpsertRows(_, _, _, _, _, _)
UpsertRows(orig, tbl, reqs, i, touched, t) ==
  IF i > Len(reqs) THEN StmtOK(tbl, Cardinality(touched))
  ELSE
    LET u == reqs[i]
        k == u.key
        cur == tbl[k]
        ins == UpsertProposed(u, t)
    IN  IF ~CheckConstraints(ins) THEN StmtFail(orig)
        ELSE IF ~cur.exists
          THEN UpsertRows(orig, [tbl EXCEPT ![k] = ins], reqs, i + 1, touched \cup {k}, t)
        ELSE IF k \in touched THEN StmtFail(orig)
        ELSE IF ~UpsertGuard(cur)
          THEN UpsertRows(orig, tbl, reqs, i + 1, touched, t)
        ELSE IF ~CheckConstraints(UpsertConflict(cur, u, t)) THEN StmtFail(orig)
        ELSE UpsertRows(orig, [tbl EXCEPT ![k] = UpsertConflict(cur, u, t)],
                        reqs, i + 1, touched \cup {k}, t)

\* The statement of UpsertProgress (one row).
UpsertStmt(tbl, u, t) == UpsertRows(tbl, tbl, <<u>>, 1, {}, t)

\* A batch statement that fails on a claimed row (for C19).
BatchUpsertRejecting(tbl, updates, t) ==
  IF \E i \in 1..Len(updates) : tbl[updates[i].key].status = GoalStatusClaimed
  THEN StmtFail(tbl)
  ELSE UpsertRows(tbl, tbl, updates, 1, {}, t)

\* The statement of BatchUpsertProgress (VALUES list of all rows).
BatchUpsertStmt(tbl, updates, t) == UpsertRows(tbl, tbl, updates, 1, {}, t)

\* A merge that takes only the first staged row (for C20).
CopyMergeFirst(tbl, staged, t) == UpsertRows(tbl, tbl, SubSeq(staged, 1, 1), 1, {}, t)

\* Step 5 of BatchUpsertProgressWithCOPY: INSERT ... SELECT ... FROM
\* temp_user_goal_progress ON CONFLICT DO UPDATE, over the staged rows.
CopyMergeStmt(tbl, staged, t) == UpsertRows(tbl, tbl, staged, 1, {}, t)

\* if len(updates) > 9000: "batch size exceeds PostgreSQL parameter limit".
MaxBatchRows == 9000

\* BatchUpsertProgress on the rows `updates` for the keys of the model
\* together with `others` rows for other keys (well-formed, distinct, and of
\* no effect on the keys of the model): the length tests, then the statement.
BatchUpsertCall(tbl, updates, others, t) ==
  IF Len(updates) + others = 0 THEN StmtOK(tbl, 0)
  ELSE IF Len(updates) + others > MaxBatchRows THEN StmtFail(tbl)
  ELSE BatchUpsertStmt(tbl, updates, t)

\* BatchUpsertProgressWithCOPY on the same batch: the length test, then the
\* staged merge; it has no limit on the number of rows.
CopyCall(tbl, updates, others, t) ==
  IF Len(updates) + others = 0 THEN StmtOK(tbl, 0)
  ELSE CopyMergeStmt(tbl, updates, t)

\* The context of a call: live, or cancelled when the call reaches a step.
CtxLive == "live"
CopySteps == {"begin", "create", "copy", "merge", "commit"}
IncrementSteps == {"exec"}

\* A staged upsert whose failed Commit leaves the merged rows (for C16).
CopyRunPublishing(tbl, updates, t, failAt) ==
  LET merged == CopyMergeStmt(tbl, updates, t)
  IN  IF failAt \in {"begin", "create", "copy", "merge"} THEN StmtFail(tbl)
      ELSE IF ~merged.ok THEN StmtFail(tbl)
      ELSE IF failAt = "commit" THEN [ok |-> FALSE, tbl |-> merged.tbl, rows |-> 0]
      ELSE merged

\* The transaction of BatchUpsertProgressWithCOPY on a non-empty batch, with
\* the step `failAt` returning an error (CtxLive: none does): BeginTx, CREATE
\* TEMP TABLE, the COPY into it, the merge, Commit. Every error return leaves
\* err non-nil, so the deferred function rolls the transaction back; the
\* rows of the merge are in the table only after Commit.
CopyRun(tbl, updates, t, failAt) ==
  LET merged == CopyMergeStmt(tbl, updates, t)
  IN  IF failAt \in {"begin", "create", "copy", "merge"} THEN StmtFail(tbl)
      ELSE IF ~merged.ok THEN StmtFail(tbl)
      ELSE IF failAt = "commit" THEN StmtFail(tbl)
      ELSE merged

\* ---------------------------------------------------- increment statements
\* A status derivation that holds a record at in_progress (for C15).
StatusInProgress(progress, targetValue) == GoalStatusInProgress

StatusFor(progress, targetValue) ==
  IF progress >= targetValue THEN GoalStatusCompleted ELSE GoalStatusInProgress

\* VALUES (...) of incrementProgressRegular: progress = $5 (delta).
RegularProposed(inc, t) ==
  [exists |-> TRUE, challengeID |-> inc.challengeID, namespace |-> inc.namespace,
   progress |-> inc.delta, status |-> StatusFor(inc.delta, inc.targetValue),
   completedAt |-> IF inc.delta >= inc.targetValue THEN t ELSE NULL,
   claimedAt |-> NULL, updatedAt |-> t, isActive |-> TRUE, assignedAt |-> NULL]

\* VALUES (...) of incrementProgressDaily: "Initial progress = 1 for first day".
DailyProposed(inc, t) ==
  [exists |-> TRUE, challengeID |-> inc.challengeID, namespace |-> inc.namespace,
   progress |-> 1, status |-> StatusFor(1, inc.targetValue),
   completedAt |-> IF 1 >= inc.targetValue THEN t ELSE NULL,
   claimedAt |-> NULL, updatedAt |-> t, isActive |-> TRUE, assignedAt |-> NULL]

\* An increment without the WHERE clause (for C2).
IncrementUnguarded(cur) == TRUE

\* WHERE user_goal_progress.status != 'claimed' of the increment statements.
IncrementGuard(cur) == cur.status # GoalStatusClaimed

\* An increment that stamps completed_at at every call at or beyond the
\* target (for C13).
RegularRestamp(cur, delta, targetValue, t) ==
  [cur EXCEPT !.progress = cur.progress + delta,
              !.status = StatusFor(cur.progress + delta, targetValue),
              !.completedAt = IF cur.progress + delta >= targetValue THEN t
                              ELSE cur.completedAt,
              !.updatedAt = t]

\* An increment that stops at the target (for C12).
RegularClamped(cur, delta, targetValue, t) ==
  [cur EXCEPT !.progress = IF cur.progress + delta > targetValue THEN targetValue
                           ELSE cur.progress + delta,
              !.status = StatusFor(cur.progress + delta, targetValue),
              !.completedAt = IF cur.progress + delta >= targetValue /\ cur.completedAt = NULL
                              THEN t ELSE cur.completedAt,
              !.updatedAt = t]

\* DO UPDATE SET of incrementProgressRegular.
RegularConflict(cur, delta, targetValue, t) ==
  [cur EXCEPT !.progress = cur.progress + delta,
              !.status = StatusFor(cur.progress + delta, targetValue),
              !.completedAt = IF cur.progress + delta >= targetValue /\ cur.completedAt = NULL
                              THEN t ELSE cur.completedAt,
              !.updatedAt = t]

\* A date comparison that never finds the same day (for C11).
NeverSameDay(cur, t) == FALSE

\* DATE(updated_at AT TIME ZONE 'UTC') = DATE(NOW() AT TIME ZONE 'UTC')
SameDay(cur, t) == DateUTC(cur.updatedAt) = DateUTC(t)

\* A same-day branch that leaves updated_at alone (for C28).
DailyQuiet(cur, delta, targetValue, t) ==
  IF SameDay(cur, t)
  THEN [cur EXCEPT !.status = StatusFor(cur.progress, targetValue)]
  ELSE RegularConflict(cur, delta, targetValue, t)

\* DO UPDATE SET of incrementProgressDaily.
DailyConflict(cur, delta, targetValue, t) ==
  IF SameDay(cur, t)
  THEN [cur EXCEPT !.status = StatusFor(cur.progress, targetValue), !.updatedAt = t]
  ELSE RegularConflict(cur, delta, targetValue, t)

\* One single-row INSERT ... ON CONFLICT DO UPDATE with the proposed tuple
\* `ins` and the updated tuple `upd` (used when the row exists and passes
\* the guard).
SingleRowStmt(tbl, k, ins, guard, upd) ==
  IF ~CheckConstraints(ins) THEN StmtFail(tbl)
  ELSE IF ~tbl[k].exists THEN StmtOK([tbl EXCEPT ![k] = ins], 1)
  ELSE IF ~guard THEN StmtOK(tbl, 0)
  ELSE IF ~CheckConstraints(upd) THEN StmtFail(tbl)
  ELSE StmtOK([tbl EXCEPT ![k] = upd], 1)

incrementProgressRegular(tbl, inc, t) ==
  SingleRowStmt(tbl, inc.key, RegularProposed(inc, t), IncrementGuard(tbl[inc.key]),
                RegularConflict(tbl[inc.key], inc.delta, inc.targetValue, t))

incrementProgressDaily(tbl, inc, t) ==
  SingleRowStmt(tbl, inc.key, DailyProposed(inc, t), IncrementGuard(tbl[inc.key]),
                DailyConflict(tbl[inc.key], inc.delta, inc.targetValue, t))

\* IncrementProgress dispatches on isDailyIncrement.
IncrementStmt(tbl, inc, t) ==
  IF inc.isDaily THEN incrementProgressDaily(tbl, inc, t)
  ELSE incrementProgressRegular(tbl, inc, t)

\* (SELECT x FROM UNNEST($x[], $2[]) AS u(x, gid) WHERE u.gid = goal_id LIMIT 1):
\* the first request of the batch whose goal ID is that of the row, whatever
\* its user ID. UNNEST yields the array elements in order.
FirstForGoal(increments, goalID) ==
  increments[CHOOSE j \in 1..Len(increments) :
               /\ increments[j].key[2] = goalID
               /\ \A i \in 1..(j - 1) : increments[i].key[2] # goalID]

\* A batch increment that adds the delta whatever the date (for C31).
BatchIncrementAlways(cur, k, increments, t) ==
  LET u == increments[CHOOSE j \in 1..Len(increments) : increments[j].key[2] = k[2]]
  IN  RegularConflict(cur, u.delta, u.targetValue, t)

\* DO UPDATE SET of BatchIncrementProgress for the row `cur` with key k.
BatchIncrementConflict(cur, k, increments, t) ==
  LET u == FirstForGoal(increments, k[2])
  IN  IF u.isDaily /\ SameDay(cur, t)
      THEN [cur EXCEPT !.status = StatusFor(cur.progress, u.targetValue), !.updatedAt = t]
      ELSE RegularConflict(cur, u.delta, u.targetValue, t)

\* The UNNEST statement of BatchIncrementProgress over all requests, in order.
RECURSIVE BatchIncrementRows(_, _, _, _, _, _)
BatchIncrementRows(orig, tbl, increments, i, touched, t) ==
  IF i > Len(increments) THEN StmtOK(tbl, Cardinality(touched))
  ELSE
    LET inc == increments[i]
        k == inc.key
        cur == tbl[k]
        ins == RegularProposed(inc, t)
        upd == BatchIncrementConflict(cur, k, increments, t)
    IN  IF ~CheckConstraints(ins) THEN StmtFail(orig)
        ELSE IF ~cur.exists
          THEN BatchIncrementRows(orig, [tbl EXCEPT ![k] = ins], increments, i + 1,
                                  touched \cup {k}, t)
        ELSE IF k \in touched THEN StmtFail(orig)
        ELSE IF ~IncrementGuard(cur)
          THEN BatchIncrementRows(orig, tbl, increments, i + 1, touched, t)
        ELSE IF ~CheckConstraints(upd) THEN StmtFail(orig)
        ELSE BatchIncrementRows(orig, [tbl EXCEPT ![k] = upd], increments, i + 1,
                                touched \cup {k}, t)

\* A batch increment that applies the first of two requests for one key and
\* drops the second (for C38).
BatchIncrementFirstWins(tbl, increments, t) ==
  IF Len(increments) > 1 /\ increments[1].key = increments[2].key
  THEN BatchIncrementRows(tbl, tbl, SubSeq(increments, 1, 1), 1, {}, t)
  ELSE BatchIncrementRows(tbl, tbl, increments, 1, {}, t)

BatchIncrementStmt(tbl, increments, t) ==
  BatchIncrementRows(tbl, tbl, increments, 1, {}, t)

\* r.db.ExecContext of BatchIncrementProgress on a non-empty batch, with the
\* context live or cancelled: one statement, applied whole or not at all.
BatchIncrementRun(tbl, increments, t, failAt) ==
  IF failAt = "exec" THEN StmtFail(tbl) ELSE BatchIncrementStmt(tbl, increments, t)

\* ------------------------------------------------------------ claim, gate
\* WHERE ... AND status = 'completed' AND claimed_at IS NULL of MarkAsClaimed.
ClaimGuard(cur) ==
  cur.exists /\ cur.status = GoalStatusCompleted /\ cur.claimedAt = NULL

\* A claim that also restamps completed_at (for C9).
ClaimRestamp(cur, t) ==
  [cur EXCEPT !.status = GoalStatusClaimed, !.claimedAt = t, !.updatedAt = t,
              !.completedAt = t]

\* A claim that sets the status and leaves claimed_at alone (for C37).
ClaimUnstamped(cur, t) ==
  [cur EXCEPT !.status = GoalStatusClaimed, !.updatedAt = t]

\* SET status = 'claimed', claimed_at = NOW(), updated_at = NOW()
ClaimUpdate(cur, t) ==
  [cur EXCEPT !.status = GoalStatusClaimed, !.claimedAt = t, !.updatedAt = t]

\* The UPDATE of MarkAsClaimed.
MarkAsClaimedStmt(tbl, k, t) ==
  IF ~ClaimGuard(tbl[k]) THEN StmtOK(tbl, 0)
  ELSE IF ~CheckConstraints(ClaimUpdate(tbl[k], t)) THEN StmtFail(tbl)
  ELSE StmtOK([tbl EXCEPT ![k] = ClaimUpdate(tbl[k], t)], 1)

\* A MarkAsClaimed that wraps "no row updated" as a database error (for C8).
MarkAsClaimedErrWrapped(res) ==
  IF res.ok /\ res.rows > 0 THEN ErrNone ELSE ErrCodeDatabaseError

\* The error MarkAsClaimed returns for a statement outcome.
MarkAsClaimedErr(res) ==
  IF ~res.ok THEN ErrCodeDatabaseError
  ELSE IF res.rows = 0 THEN ErrCodeGoalNotCompleted
  ELSE ErrNone

\* VALUES (...) of UpsertGoalActive.
GoalActiveProposed(g, t) ==
  [exists |-> TRUE, challengeID |-> g.challengeID, namespace |-> g.namespace,
   progress |-> g.progress, status |-> g.status, completedAt |-> NULL,
   claimedAt |-> NULL, updatedAt |-> t, isActive |-> g.isActive,
   assignedAt |-> g.assignedAt]

\* An assignment update that also stores the caller's progress and status
\* (for C26).
GoalActiveOverwrite(cur, g, t) ==
  [cur EXCEPT !.isActive = g.isActive,
              !.assignedAt = IF g.isActive THEN t ELSE cur.assignedAt,
              !.progress = g.progress,
              !.status = g.status,
              !.updatedAt = t]

\* An assignment update that starts the record over (for C14).
GoalActiveReset(cur, g, t) ==
  [cur EXCEPT !.isActive = g.isActive,
              !.assignedAt = IF g.isActive THEN t ELSE cur.assignedAt,
              !.completedAt = NULL,
              !.updatedAt = t]

\* DO UPDATE SET of UpsertGoalActive (no WHERE).
GoalActiveConflict(cur, g, t) ==
  [cur EXCEPT !.isActive = g.isActive,
              !.assignedAt = IF g.isActive THEN t ELSE cur.assignedAt,
              !.updatedAt = t]

UpsertGoalActiveStmt(tbl, g, t) ==
  SingleRowStmt(tbl, g.key, GoalActiveProposed(g, t), TRUE,
                GoalActiveConflict(tbl[g.key], g, t))

\* VALUES (...) of BulkInsert.
BulkInsertProposed(p, t) ==
  [exists |-> TRUE, challengeID |-> p.challengeID, namespace |-> p.namespace,
   progress |-> p.progress, status |-> p.status, completedAt |-> p.completedAt,
   claimedAt |-> p.claimedAt, updatedAt |-> t, isActive |-> p.isActive,
   assignedAt |-> p.assignedAt]

\* INSERT ... VALUES ... ON CONFLICT DO NOTHING over the rows in order.
RECURSIVE BulkInsertRows(_, _, _, _, _)
BulkInsertRows(orig, tbl, progresses, i, t) ==
  IF i > Len(progresses) THEN StmtOK(tbl, 0)
  ELSE
    LET p == progresses[i]
        ins == BulkInsertProposed(p, t)
    IN  IF ~CheckConstraints(ins) THEN StmtFail(orig)
        ELSE IF tbl[p.key].exists THEN BulkInsertRows(orig, tbl, progresses, i + 1, t)
        ELSE BulkInsertRows(orig, [tbl EXCEPT ![p.key] = ins], progresses, i + 1, t)

\* Row i of BulkInsert uses the placeholders $(13i+1)..$(13i+11) while 11
\* arguments are passed per row: from the second row on the placeholders
\* name arguments that were not passed, and the driver rejects the statement.
BulkInsertStmt(tbl, progresses, t) ==
  IF Len(progresses) > 1 THEN StmtFail(tbl)
  ELSE BulkInsertRows(tbl, tbl, progresses, 1, t)

\* ------------------------------------------------------------------ state
VARIABLES
  table,   \* committed rows of user_goal_progress, by (user_id, goal_id)
  now,     \* the wall clock
  txs,     \* the PostgresTxRepository objects (sql.Tx), by handle
  flow,    \* the claim workflows of the callers, by transaction handle
  last     \* observation of one call: its name, connection, request, error
           \* and the rows its connection saw before it ran

vars == <<table, now, txs, flow, last>>

Direct == "db"

\* A transaction handle that was never begun.
NoTx ==
  [state |-> "idle", aborted |-> FALSE, began |-> NULL, written |-> {},
   writes |-> EmptyTable, locks |-> {}, staged |-> <<>>]

\* The rows a statement of transaction tx sees over the committed rows tb:
\* read committed, plus the transaction's own uncommitted writes.
ViewOf(tb, tx) == [k \in Keys |-> IF k \in tx.written THEN tx.writes[k] ELSE tb[k]]
View(c) == IF c = Direct THEN table ELSE ViewOf(table, txs[c])

\* A store without row locks (for C1).
NeverLocked(k, c) == FALSE

\* Key k is row-locked (written, inserted or selected FOR UPDATE) by an open
\* transaction other than c.
LockedByOther(k, c) ==
  \E o \in Txs \ {c} : txs[o].state = "open" /\ k \in txs[o].locks

Free(keys, c) == \A k \in keys : ~LockedByOther(k, c)

KeysOf(reqs) == {reqs[i].key : i \in 1..Len(reqs)}

NoReq == <<>>

\* No call is under observation.
Quiet ==
  [op |-> "-", tx |-> Direct, req |-> NoReq, err |-> "-", before |-> EmptyTable,
   at |-> NULL]

\* Every call is taken twice: once unobserved, and once recorded in `last`
\* with the rows seen before it and the NOW() it ran at. A recorded state is
\* looked at by the properties and not continued (every next-state relation
\* starts with Running): the unobserved twin of the call continues the run.
Called(op, c, req, err, before, t) ==
  \/ last' = Quiet
  \/ last' = [op |-> op, tx |-> c, req |-> req, err |-> err, before |-> before,
              at |-> t]

Running == last = Quiet

\* A transaction whose statements write without taking row locks (for C29).
TxAfterUnlocked(tx, view, res, keys) ==
  IF ~res.ok THEN [tx EXCEPT !.aborted = TRUE]
  ELSE LET changed == {k \in Keys : res.tbl[k] # view[k]}
       IN  [tx EXCEPT !.written = @ \cup changed,
                      !.writes = [k \in Keys |-> IF k \in changed THEN res.tbl[k] ELSE @[k]]]

\* A transaction that takes its locks and forgets its writes (for C21).
TxAfterForgetful(tx, view, res, keys) ==
  IF ~res.ok THEN [tx EXCEPT !.aborted = TRUE]
  ELSE [tx EXCEPT !.locks = @ \cup keys]

\* The transaction after a statement with outcome res that locks `keys`:
\* changed rows join its write set; a failed statement leaves the transaction
\* aborted (PostgreSQL refuses every later statement, and COMMIT rolls back).
TxAfter(tx, view, res, keys) ==
  IF ~res.ok THEN [tx EXCEPT !.aborted = TRUE]
  ELSE LET changed == {k \in Keys : res.tbl[k] # view[k]}
       IN  [tx EXCEPT !.written = @ \cup changed,
                      !.writes = [k \in Keys |-> IF k \in changed THEN res.tbl[k] ELSE @[k]],
                      !.locks = @ \cup keys]

ErrOf(res) == IF res.ok THEN ErrNone ELSE ErrCodeDatabaseError

\* A statement run by r.db.ExecContext: its own transaction, committed at once.
\* It waits while another transaction holds a lock on a row it must write.
ExecDirect(op, req, keys, res, err) ==
  /\ Free(keys, Direct)
  /\ table' = res.tbl
  /\ Called(op, Direct, req, err, table, now)
  /\ UNCHANGED <<now, txs>>

\* A transaction method that runs its statement for an empty batch too (for
\* C18).
ExecTxAlways(op, c, req, keys, res, err) ==
  /\ txs[c].state = "open"
  /\ IF txs[c].aborted
     THEN /\ txs' = txs
          /\ Called(op, c, req, ErrCodeDatabaseError, View(c), txs[c].began)
     ELSE /\ Free(keys, c)
          /\ txs' = [txs EXCEPT ![c] = TxAfter(@, View(c), res, keys)]
          /\ Called(op, c, req, err, View(c), txs[c].began)
  /\ UNCHANGED <<table, now>>

\* A statement run by r.tx.ExecContext inside the open transaction c. On a
\* transaction that a failed statement aborted, every statement fails. An
\* empty batch (req = NoReq) returns before any statement is run.
ExecTx(op, c, req, keys, res, err) ==
  /\ txs[c].state = "open"
  /\ IF txs[c].aborted /\ req # NoReq
     THEN /\ txs' = txs
          /\ Called(op, c, req, ErrCodeDatabaseError, View(c), txs[c].began)
     ELSE /\ Free(keys, c)
          /\ txs' = [txs EXCEPT ![c] = TxAfter(@, View(c), res, keys)]
          /\ Called(op, c, req, err, View(c), txs[c].began)
  /\ UNCHANGED <<table, now>>

\* ------------------------------------------------------------------ inputs
SeqsUpTo(S, n) == UNION {[1..m -> S] : m \in 0..n}

K1 == {<<"u1", "g1">>}

\* progress / status / completed_at a caller passes to UpsertProgress at time t.
UpsertValues(t) ==
  { [progress |-> 1, status |-> GoalStatusInProgress, completedAt |-> NULL],
    [progress |-> 2, status |-> GoalStatusCompleted, completedAt |-> t],
    [progress |-> 2, status |-> GoalStatusCompleted, completedAt |-> NULL],
    [progress |-> 0, status |-> GoalStatusNotStarted, completedAt |-> NULL],
    [progress |-> 1, status |-> GoalStatusClaimed, completedAt |-> NULL],
    [progress |-> -1, status |-> GoalStatusInProgress, completedAt |-> NULL] }

\* Rows of the batches: fewer values than for the single upsert.
BatchValues(t) ==
  { [progress |-> 1, status |-> GoalStatusInProgress, completedAt |-> NULL],
    [progress |-> 2, status |-> GoalStatusCompleted, completedAt |-> t],
    [progress |-> -1, status |-> GoalStatusInProgress, completedAt |-> NULL] }

\* Fewer values still: for the callers on two keys and the batches inside a
\* transaction.
TwoValues(t) ==
  { [progress |-> 1, status |-> GoalStatusInProgress, completedAt |-> NULL],
    [progress |-> 2, status |-> GoalStatusCompleted, completedAt |-> t] }

UpsertReqs(K, V) ==
  { [key |-> k, challengeID |-> "c1", namespace |-> "ns1", progress |-> v.progress,
     status |-> v.status, completedAt |-> v.completedAt] : k \in K, v \in V }

IncrementReqs(K, D, T) ==
  { [key |-> k, challengeID |-> "c1", namespace |-> "ns1", delta |-> d,
     targetValue |-> tv, isDaily |-> dl] :
    k \in K, d \in D, tv \in T, dl \in BOOLEAN }

\* A caller of UpsertGoalActive either fills in status and assigned_at or
\* leaves them at their zero values ("" and nil).
GoalActiveReqs(K, t) ==
  { [key |-> k, challengeID |-> "c1", namespace |-> "ns1", progress |-> 0,
     status |-> v[1], isActive |-> a, assignedAt |-> v[2]] :
    k \in K, a \in BOOLEAN, v \in {<<GoalStatusNotStarted, t>>, <<"", NULL>>} }

BulkInsertValues(t) ==
  { [progress |-> 0, status |-> GoalStatusNotStarted, completedAt |-> NULL,
     claimedAt |-> NULL, isActive |-> TRUE, assignedAt |-> t],
    [progress |-> 0, status |-> GoalStatusNotStarted, completedAt |-> NULL,
     claimedAt |-> NULL, isActive |-> FALSE, assignedAt |-> NULL],
    [progress |-> 2, status |-> GoalStatusClaimed, completedAt |-> NULL,
     claimedAt |-> NULL, isActive |-> TRUE, assignedAt |-> t],
    [progress |-> 2, status |-> GoalStatusCompleted, completedAt |-> t,
     claimedAt |-> t, isActive |-> TRUE, assignedAt |-> t],
    [progress |-> 2, status |-> GoalStatusClaimed, completedAt |-> NULL,
     claimedAt |-> t, isActive |-> TRUE, assignedAt |-> t] }

BulkInsertReqs(K, t) ==
  { [key |-> k, challengeID |-> "c1", namespace |-> "ns1", progress |-> v.progress,
     status |-> v.status, completedAt |-> v.completedAt, claimedAt |-> v.claimedAt,
     isActive |-> v.isActive, assignedAt |-> v.assignedAt] :
    k \in K, v \in BulkInsertValues(t) }

\* Progress stays within the bound of the model.
Bounded(tbl) == \A k \in Keys : tbl[k].progress <= MaxProgress

\* ------------------------------------------- PostgresGoalRepository (direct)
Init ==
  /\ table = EmptyTable
  /\ now = 0
  /\ txs = [c \in Txs |-> NoTx]
  /\ flow = [c \in Txs |-> [pc |-> "begin", given |-> NoRow, err |-> "-"]]
  /\ last = Quiet

\* Time passes between two calls.
Tick ==
  /\ now < MaxTime
  /\ now' = now + 1
  /\ UNCHANGED <<table, txs, last>>

UpsertProgress(Reqs) ==
  \E u \in Reqs :
    LET res == UpsertStmt(table, u, now)
    IN  ExecDirect("UpsertProgress", <<u>>, {u.key}, res, ErrOf(res))

\* len(updates) == 0 returns nil before any statement is built.
BatchUpsertProgress(Reqs) ==
  \E updates \in SeqsUpTo(Reqs, MaxBatch) :
    LET res == IF Len(updates) = 0 THEN StmtOK(table, 0)
               ELSE BatchUpsertStmt(table, updates, now)
    IN  ExecDirect("BatchUpsertProgress", updates, KeysOf(updates), res, ErrOf(res))

\* BeginTx, CREATE TEMP TABLE ... ON COMMIT DROP, COPY of the batch into it,
\* the merge, Commit; any error rolls the transaction back. The staging table
\* is created by this transaction, so it holds exactly this batch.
BatchUpsertProgressWithCOPY(Reqs) ==
  \E updates \in SeqsUpTo(Reqs, MaxBatch) :
    LET res == IF Len(updates) = 0 THEN StmtOK(table, 0)
               ELSE CopyMergeStmt(table, updates, now)
    IN  ExecDirect("BatchUpsertProgressWithCOPY", updates, KeysOf(updates), res, ErrOf(res))

\* The two bulk upserts on batches that hold, next to the rows for the keys
\* of the model, one of the numbers in Others of rows for other keys.
BatchUpsertProgressSized(Reqs, Others) ==
  \E updates \in SeqsUpTo(Reqs, MaxBatch), others \in Others :
    LET res == BatchUpsertCall(table, updates, others, now)
    IN  ExecDirect("BatchUpsertProgress", updates, KeysOf(updates), res, ErrOf(res))

BatchUpsertProgressWithCOPYSized(Reqs, Others) ==
  \E updates \in SeqsUpTo(Reqs, MaxBatch), others \in Others :
    LET res == CopyCall(table, updates, others, now)
    IN  ExecDirect("BatchUpsertProgressWithCOPY", updates, KeysOf(updates), res, ErrOf(res))

\* The same call under a context that is live or is cancelled at one of the
\* steps in Fails. An empty batch returns nil before the context is used.
BatchUpsertProgressWithCOPYCtx(Reqs, Fails) ==
  \E updates \in SeqsUpTo(Reqs, MaxBatch), failAt \in Fails :
    LET res == IF Len(updates) = 0 THEN StmtOK(table, 0)
               ELSE CopyRun(table, updates, now, failAt)
    IN  ExecDirect("BatchUpsertProgressWithCOPY", updates, KeysOf(updates), res, ErrOf(res))

IncrementProgress(Reqs) ==
  \E inc \in Reqs :
    LET res == IncrementStmt(table, inc, now)
    IN  /\ Bounded(res.tbl)
        /\ ExecDirect("IncrementProgress", <<inc>>, {inc.key}, res, ErrOf(res))

BatchIncrementProgress(Reqs) ==
  \E increments \in SeqsUpTo(Reqs, MaxBatch) :
    LET res == IF Len(increments) = 0 THEN StmtOK(table, 0)
               ELSE BatchIncrementStmt(table, increments, now)
    IN  /\ Bounded(res.tbl)
        /\ ExecDirect("BatchIncrementProgress", increments, KeysOf(increments), res,
                      ErrOf(res))

\* The same call under a context that is live or is cancelled at one of the
\* steps in Fails.
BatchIncrementProgressCtx(Reqs, Fails) ==
  \E increments \in SeqsUpTo(Reqs, MaxBatch), failAt \in Fails :
    LET res == IF Len(increments) = 0 THEN StmtOK(table, 0)
               ELSE BatchIncrementRun(table, increments, now, failAt)
    IN  /\ Bounded(res.tbl)
        /\ ExecDirect("BatchIncrementProgress", increments, KeysOf(increments), res,
                      ErrOf(res))

\* The UPDATE waits for a row lock only on a row that its WHERE selects.
MarkAsClaimed(K) ==
  \E k \in K :
    LET res == MarkAsClaimedStmt(table, k, now)
    IN  ExecDirect("MarkAsClaimed", <<[key |-> k]>>,
                   IF ClaimGuard(table[k]) THEN {k} ELSE {}, res, MarkAsClaimedErr(res))

BulkInsert(Batches) ==
  \E progresses \in Batches :
    LET res == IF Len(progresses) = 0 THEN StmtOK(table, 0)
               ELSE BulkInsertStmt(table, progresses, now)
    IN  ExecDirect("BulkInsert", progresses, KeysOf(progresses), res, ErrOf(res))

UpsertGoalActive(Reqs) ==
  \E g \in Reqs :
    LET res == UpsertGoalActiveStmt(table, g, now)
    IN  ExecDirect("UpsertGoalActive", <<g>>, {g.key}, res, ErrOf(res))

\* db.BeginTx: a new PostgresTxRepository (the handle c is free or its
\* previous transaction has ended). NOW() of its statements is its start.
BeginTx(c) ==
  /\ txs[c].state \in {"idle", "done"}
  /\ txs' = [txs EXCEPT ![c] = [NoTx EXCEPT !.state = "open", !.began = now]]
  /\ Called("BeginTx", c, NoReq, ErrNone, table, now)
  /\ UNCHANGED <<table, now>>

\* ------------------------------------------------------ PostgresTxRepository
TxUpsertProgress(c, Reqs) ==
  \E u \in Reqs :
    LET res == UpsertStmt(View(c), u, txs[c].began)
    IN  ExecTx("UpsertProgress", c, <<u>>, {u.key}, res, ErrOf(res))

TxBatchUpsertProgress(c, Reqs) ==
  \E updates \in SeqsUpTo(Reqs, MaxBatch) :
    LET res == IF Len(updates) = 0 THEN StmtOK(View(c), 0)
               ELSE BatchUpsertStmt(View(c), updates, txs[c].began)
    IN  ExecTx("BatchUpsertProgress", c, updates, KeysOf(updates), res, ErrOf(res))

\* CREATE TEMP TABLE IF NOT EXISTS ... ON COMMIT DROP in the caller's
\* transaction: the staging table lives until that transaction ends, the COPY
\* appends this batch to what it holds, and the merge selects all of it.
TxBatchUpsertProgressWithCOPY(c, Reqs) ==
  \E updates \in SeqsUpTo(Reqs, MaxBatch) :
    LET staged == txs[c].staged \o updates
        res == IF Len(updates) = 0 THEN StmtOK(View(c), 0)
               ELSE CopyMergeStmt(View(c), staged, txs[c].began)
    IN  /\ txs[c].state = "open"
        /\ Len(staged) <= MaxStaged
        /\ IF txs[c].aborted /\ Len(updates) > 0
           THEN /\ txs' = txs
                /\ Called("BatchUpsertProgressWithCOPY", c, updates, ErrCodeDatabaseError,
                          View(c), txs[c].began)
           ELSE /\ (Len(updates) = 0 \/ Free(KeysOf(staged), c))
                /\ txs' = [txs EXCEPT ![c] =
                             [TxAfter(@, View(c), res, IF Len(updates) = 0 THEN {} ELSE KeysOf(staged))
                                EXCEPT !.staged = staged]]
                /\ Called("BatchUpsertProgressWithCOPY", c, updates, ErrOf(res),
                          View(c), txs[c].began)
        /\ UNCHANGED <<table, now>>

TxIncrementProgress(c, Reqs) ==
  \E inc \in Reqs :
    LET res == IncrementStmt(View(c), inc, txs[c].began)
    IN  /\ Bounded(res.tbl)
        /\ ExecTx("IncrementProgress", c, <<inc>>, {inc.key}, res, ErrOf(res))

\* PostgresTxRepository.BatchIncrementProgress called with `increments`.
TxBatchIncrementCall(c, increments) ==
  LET res == IF Len(increments) = 0 THEN StmtOK(View(c), 0)
             ELSE BatchIncrementStmt(View(c), increments, txs[c].began)
  IN  /\ Bounded(res.tbl)
      /\ ExecTx("BatchIncrementProgress", c, increments, KeysOf(increments), res,
                ErrOf(res))

TxBatchIncrementProgress(c, Reqs) ==
  \E increments \in SeqsUpTo(Reqs, MaxBatch) : TxBatchIncrementCall(c, increments)

TxMarkAsClaimed(c, K) ==
  \E k \in K :
    LET res == MarkAsClaimedStmt(View(c), k, txs[c].began)
    IN  ExecTx("MarkAsClaimed", c, <<[key |-> k]>>,
               IF ClaimGuard(View(c)[k]) THEN {k} ELSE {}, res, MarkAsClaimedErr(res))

TxBulkInsert(c, Batches) ==
  \E progresses \in Batches :
    LET res == IF Len(progresses) = 0 THEN StmtOK(View(c), 0)
               ELSE BulkInsertStmt(View(c), progresses, txs[c].began)
    IN  ExecTx("BulkInsert", c, progresses, KeysOf(progresses), res, ErrOf(res))

TxUpsertGoalActive(c, Reqs) ==
  \E g \in Reqs :
    LET res == UpsertGoalActiveStmt(View(c), g, txs[c].began)
    IN  ExecTx("UpsertGoalActive", c, <<g>>, {g.key}, res, ErrOf(res))

\* SELECT ... FOR UPDATE: locks the row if there is one, and returns it (nil
\* for no row). The row returned is last.before[k].
GetProgressForUpdate(c, K) ==
  \E k \in K :
    ExecTx("GetProgressForUpdate", c, <<[key |-> k]>>,
           IF View(c)[k].exists THEN {k} ELSE {}, StmtOK(View(c), 0), ErrNone)

\* A nested BeginTx that starts the transaction over (for C23).
TxBeginTxRestarting(c) ==
  /\ txs[c].state = "open"
  /\ txs' = [txs EXCEPT ![c] = [NoTx EXCEPT !.state = "open", !.began = txs[c].began]]
  /\ Called("BeginTx", c, NoReq, ErrNestedTx, View(c), txs[c].began)
  /\ UNCHANGED <<table, now>>

\* BeginTx on a PostgresTxRepository: "cannot begin nested transaction".
TxBeginTx(c) ==
  /\ txs[c].state = "open"
  /\ Called("BeginTx", c, NoReq, ErrNestedTx, View(c), txs[c].began)
  /\ UNCHANGED <<table, now, txs>>

Ended == [NoTx EXCEPT !.state = "done"]

\* A Commit that reports success on a transaction that has ended (for C22).
CommitTolerant(c) ==
  /\ txs[c].state \in {"open", "done"}
  /\ LET good == txs[c].state = "open" /\ ~txs[c].aborted
     IN  /\ table' = IF good THEN ViewOf(table, txs[c]) ELSE table
         /\ txs' = [txs EXCEPT ![c] = Ended]
         /\ Called("Commit", c, NoReq,
                   IF good \/ txs[c].state = "done" THEN ErrNone ELSE ErrCodeDatabaseError,
                   table, now)
  /\ UNCHANGED now

\* A Commit that ends the transaction and leaves its row locks recorded (for
\* C40).
CommitHolding(c) ==
  /\ txs[c].state \in {"open", "done"}
  /\ LET good == txs[c].state = "open" /\ ~txs[c].aborted
     IN  /\ table' = IF good THEN ViewOf(table, txs[c]) ELSE table
         /\ txs' = [txs EXCEPT ![c].state = "done"]
         /\ Called("Commit", c, NoReq, IF good THEN ErrNone ELSE ErrCodeDatabaseError,
                   table, now)
  /\ UNCHANGED now

\* tx.Commit: makes the writes of the transaction the committed rows and
\* releases its locks; on an aborted transaction it rolls back and returns
\* the error; on a transaction that has ended it returns sql.ErrTxDone.
Commit(c) ==
  /\ txs[c].state \in {"open", "done"}
  /\ LET good == txs[c].state = "open" /\ ~txs[c].aborted
     IN  /\ table' = IF good THEN ViewOf(table, txs[c]) ELSE table
         /\ txs' = [txs EXCEPT ![c] = Ended]
         /\ Called("Commit", c, NoReq, IF good THEN ErrNone ELSE ErrCodeDatabaseError,
                   table, now)
  /\ UNCHANGED now

\* A Rollback that publishes the writes of the transaction (for C17).
RollbackPublishing(c) ==
  /\ txs[c].state \in {"open", "done"}
  /\ table' = ViewOf(table, txs[c])
  /\ txs' = [txs EXCEPT ![c] = Ended]
  /\ Called("Rollback", c, NoReq,
            IF txs[c].state = "open" THEN ErrNone ELSE ErrCodeDatabaseError, table, now)
  /\ UNCHANGED now

\* tx.Rollback: drops the writes of the transaction and releases its locks.
Rollback(c) ==
  /\ txs[c].state \in {"open", "done"}
  /\ txs' = [txs EXCEPT ![c] = Ended]
  /\ Called("Rollback", c, NoReq,
            IF txs[c].state = "open" THEN ErrNone ELSE ErrCodeDatabaseError, table, now)
  /\ UNCHANGED <<table, now>>

\* ------------------------------------------------------------ specifications
Deltas == {-1, 1, 2}
TargetValues == {2, 3}

\* One call of a caller that runs no claim workflow.
Step(A) == Running /\ A /\ UNCHANGED flow

\* Callers of PostgresGoalRepository, one call at a time, on one key, with
\* time passing between the calls.
Next ==
  \/ Step(Tick)
  \/ Step(UpsertProgress(UpsertReqs(K1, UpsertValues(now))))
  \/ Step(BatchUpsertProgress(UpsertReqs(K1, BatchValues(now))))
  \/ Step(BatchUpsertProgressWithCOPY(UpsertReqs(K1, BatchValues(now))))
  \/ Step(IncrementProgress(IncrementReqs(K1, Deltas, TargetValues)))
  \/ Step(BatchIncrementProgress(IncrementReqs(K1, {1, 2}, {2})))
  \/ Step(MarkAsClaimed(K1))
  \/ Step(BulkInsert(SeqsUpTo(BulkInsertReqs(K1, now), 1)))
  \/ Step(UpsertGoalActive(GoalActiveReqs(K1, now)))

Spec == Init /\ [][Next]_vars

\* Callers of PostgresGoalRepository and the owner of one transaction, on one
\* key, with the clock standing still.
NextTx ==
  \/ Step(UpsertProgress(UpsertReqs(K1, UpsertValues(now))))
  \/ Step(BatchUpsertProgress(UpsertReqs(K1, TwoValues(now))))
  \/ Step(BatchUpsertProgressWithCOPY(UpsertReqs(K1, TwoValues(now))))
  \/ Step(IncrementProgress(IncrementReqs(K1, {1, 2}, {2})))
  \/ Step(BatchIncrementProgress(IncrementReqs(K1, {1}, {2})))
  \/ Step(MarkAsClaimed(K1))
  \/ Step(BulkInsert(SeqsUpTo(BulkInsertReqs(K1, now), 1)))
  \/ Step(UpsertGoalActive(GoalActiveReqs(K1, now)))
  \/ Step(BeginTx("t1"))
  \/ Step(TxBeginTx("t1"))
  \/ Step(GetProgressForUpdate("t1", K1))
  \/ Step(TxUpsertProgress("t1", UpsertReqs(K1, BatchValues(txs["t1"].began))))
  \/ Step(TxBatchUpsertProgress("t1", UpsertReqs(K1, TwoValues(txs["t1"].began))))
  \/ Step(TxBatchUpsertProgressWithCOPY("t1", UpsertReqs(K1, TwoValues(txs["t1"].began))))
  \/ Step(TxIncrementProgress("t1", IncrementReqs(K1, {1, 2}, {2})))
  \/ Step(TxBatchIncrementProgress("t1", IncrementReqs(K1, {1}, {2})))
  \/ Step(TxMarkAsClaimed("t1", K1))
  \/ Step(TxBulkInsert("t1", SeqsUpTo(BulkInsertReqs(K1, txs["t1"].began), 1)))
  \/ Step(TxUpsertGoalActive("t1", GoalActiveReqs(K1, txs["t1"].began)))
  \/ Step(Commit("t1"))
  \/ Step(Rollback("t1"))

SpecTx == Init /\ [][NextTx]_vars

\* Callers of PostgresGoalRepository on two keys, with time passing.
NextTwo ==
  \/ Step(Tick)
  \/ Step(UpsertProgress(UpsertReqs(Keys, TwoValues(now))))
  \/ Step(UpsertGoalActive(GoalActiveReqs(Keys, now)))
  \/ Step(MarkAsClaimed(Keys))

SpecTwo == Init /\ [][NextTwo]_vars

\* Callers that only increment, daily and not, against one targetValue, and
\* that assign, unassign and claim the goal, on one key, with time passing.
NextInc ==
  \/ Step(Tick)
  \/ Step(IncrementProgress(IncrementReqs(K1, {1, 2}, {2})))
  \/ Step(BatchIncrementProgress(IncrementReqs(K1, {1, 2}, {2})))
  \/ Step(MarkAsClaimed(K1))
  \/ Step(UpsertGoalActive(GoalActiveReqs(K1, now)))

SpecInc == Init /\ [][NextInc]_vars

\* Callers of the bulk operations on two keys, with contexts that may be
\* cancelled at any step, after single upserts and claims.
NextBulk ==
  \/ Step(UpsertProgress(UpsertReqs(Keys, TwoValues(now))))
  \/ Step(MarkAsClaimed(Keys))
  \/ Step(BatchUpsertProgress(UpsertReqs(Keys, BatchValues(now))))
  \/ Step(BatchUpsertProgressWithCOPYCtx(UpsertReqs(Keys, BatchValues(now)),
                                         {CtxLive} \cup CopySteps))
  \/ Step(BatchIncrementProgressCtx(IncrementReqs(Keys, {1}, {2}),
                                    {CtxLive} \cup IncrementSteps))

SpecBulk == Init /\ [][NextBulk]_vars

\* Callers of the two bulk upserts on two keys, with batches of up to
\* MaxBatch rows and batches that hold MaxBatchRows further rows, after
\* single upserts and claims.
OtherRows == {0, MaxBatchRows}

NextEquiv ==
  \/ Step(UpsertProgress(UpsertReqs(Keys, TwoValues(now))))
  \/ Step(MarkAsClaimed(Keys))
  \/ Step(BatchUpsertProgressSized(UpsertReqs(Keys, BatchValues(now)), OtherRows))
  \/ Step(BatchUpsertProgressWithCOPYSized(UpsertReqs(Keys, BatchValues(now)), OtherRows))

SpecEquiv == Init /\ [][NextEquiv]_vars

\* Transaction c is open and has run no statement that took effect.
Untouched(c) ==
  /\ txs[c].state = "open"
  /\ ~txs[c].aborted
  /\ txs[c].written = {} /\ txs[c].locks = {} /\ txs[c].staged = <<>>

\* A call of the owner of a transaction that runs one operation in it.
Once(c, A) == Running /\ Untouched(c) /\ A /\ UNCHANGED flow

\* The owner of a transaction that begins it, runs one operation of the
\* mutation surface in it and commits or rolls back, on one key, with time
\* passing (also between BeginTx and the operation), next to direct upserts,
\* assignments and claims.
NextTxOne ==
  \/ Step(Tick)
  \/ Step(UpsertProgress(UpsertReqs(K1, TwoValues(now))))
  \/ Step(UpsertGoalActive(GoalActiveReqs(K1, now)))
  \/ Step(MarkAsClaimed(K1))
  \/ Step(BeginTx("t1"))
  \/ Once("t1", TxUpsertProgress("t1", UpsertReqs(K1, BatchValues(txs["t1"].began))))
  \/ Once("t1", TxBatchUpsertProgress("t1", UpsertReqs(K1, TwoValues(txs["t1"].began))))
  \/ Once("t1", TxBatchUpsertProgressWithCOPY("t1", UpsertReqs(K1, TwoValues(txs["t1"].began))))
  \/ Once("t1", TxIncrementProgress("t1", IncrementReqs(K1, {1, 2}, {2})))
  \/ Once("t1", TxBatchIncrementProgress("t1", IncrementReqs(K1, {1}, {2})))
  \/ Once("t1", TxMarkAsClaimed("t1", K1))
  \/ Once("t1", TxUpsertGoalActive("t1", GoalActiveReqs(K1, txs["t1"].began)))
  \/ Step(Commit("t1"))
  \/ Step(Rollback("t1"))

SpecTxOne == Init /\ [][NextTxOne]_vars

\* One caller-managed transaction on two keys that stages batches with
\* BatchUpsertProgressWithCOPY between other writes.
NextStage ==
  \/ Step(BeginTx("t1"))
  \/ Step(TxBatchUpsertProgressWithCOPY("t1", UpsertReqs(Keys, TwoValues(txs["t1"].began))))
  \/ Step(TxUpsertProgress("t1", UpsertReqs(Keys, TwoValues(txs["t1"].began))))
  \/ Step(TxIncrementProgress("t1", IncrementReqs(Keys, {1}, {2})))
  \/ Step(Commit("t1"))
  \/ Step(Rollback("t1"))

SpecStage == Init /\ [][NextStage]_vars

\* ------------------------------------------------------------ claim workflow
\* The claim flow of a caller on the key FlowKey, as the TxRepository
\* interface lays it out: BeginTx, GetProgressForUpdate, MarkAsClaimed, then
\* Commit (or Rollback after an error). flow[c].given is the committed row
\* when the workflow began, flow[c].err what its MarkAsClaimed returned.
FlowKey == <<"u1", "g1">>

NotStarted == \A c \in Txs : flow[c].pc = "begin"

\* A call made before any claim workflow has begun.
Setup(A) == Running /\ NotStarted /\ A /\ UNCHANGED flow

ClaimBegin(c) ==
  /\ Running
  /\ flow[c].pc = "begin"
  /\ BeginTx(c)
  /\ flow' = [flow EXCEPT ![c] = [pc |-> "lock", given |-> table[FlowKey], err |-> "-"]]

ClaimLock(c) ==
  /\ Running
  /\ flow[c].pc = "lock"
  /\ GetProgressForUpdate(c, {FlowKey})
  /\ flow' = [flow EXCEPT ![c].pc = "claim"]

ClaimMark(c) ==
  /\ Running
  /\ flow[c].pc = "claim"
  /\ TxMarkAsClaimed(c, {FlowKey})
  /\ flow' = [flow EXCEPT ![c].pc = "end",
                          ![c].err = IF txs[c].aborted THEN ErrCodeDatabaseError
                                     ELSE MarkAsClaimedErr(
                                            MarkAsClaimedStmt(View(c), FlowKey, txs[c].began))]

ClaimCommit(c) ==
  /\ Running
  /\ flow[c].pc = "end"
  /\ Commit(c)
  /\ flow' = [flow EXCEPT ![c].pc = "done"]

ClaimRollback(c) ==
  /\ Running
  /\ flow[c].pc = "end"
  /\ flow[c].err # ErrNone
  /\ Rollback(c)
  /\ flow' = [flow EXCEPT ![c].pc = "done"]

\* Two claim workflows on one key, after any calls of PostgresGoalRepository.
NextRace ==
  \/ Setup(UpsertProgress(UpsertReqs(K1, UpsertValues(now))))
  \/ Setup(BatchUpsertProgress(UpsertReqs(K1, BatchValues(now))))
  \/ Setup(IncrementProgress(IncrementReqs(K1, {1, 2}, {2})))
  \/ Setup(MarkAsClaimed(K1))
  \/ Setup(UpsertGoalActive(GoalActiveReqs(K1, now)))
  \/ \E c \in Txs : ClaimBegin(c)
  \/ \E c \in Txs : ClaimLock(c)
  \/ \E c \in Txs : ClaimMark(c)
  \/ \E c \in Txs : ClaimCommit(c)
  \/ \E c \in Txs : ClaimRollback(c)

SpecRace == Init /\ [][NextRace]_vars

\* ----------------------------------------------------- concurrent increments
\* Concurrent calls of IncrementProgress and BatchIncrementProgress on the
\* key FlowKey. r.db.ExecContext runs the statement in a transaction of its
\* own: the call begins, its statement runs (and waits for the row lock or
\* the unique-index entry another statement in flight holds), and its
\* transaction commits, or rolls back when the statement failed. flow[c] is
\* the position of call c: the committed row when the first call began, the
\* requests it passes, and what it returns.
RegularReqs == {r \in IncrementReqs(K1, Deltas, {2}) : ~r.isDaily}

Begun == {c \in Txs : flow[c].pc # "begin"}

IncBegin(c) ==
  /\ Running
  /\ flow[c].pc = "begin"
  /\ BeginTx(c)
  /\ flow' = [flow EXCEPT ![c] =
                [pc |-> "exec", err |-> "-", req |-> NoReq,
                 given |-> IF Begun = {} THEN table[FlowKey]
                           ELSE flow[CHOOSE o \in Begun : TRUE].given]]

IncExec(c) ==
  /\ Running
  /\ flow[c].pc = "exec"
  /\ \E inc \in RegularReqs :
       /\ TxIncrementProgress(c, {inc})
       /\ flow' = [flow EXCEPT ![c].pc = "end", ![c].req = <<inc>>,
                               ![c].err = IF txs'[c].aborted THEN ErrCodeDatabaseError
                                          ELSE ErrNone]

IncExecBatch(c) ==
  /\ Running
  /\ flow[c].pc = "exec"
  /\ \E increments \in SeqsUpTo(RegularReqs, MaxBatch) :
       /\ TxBatchIncrementCall(c, increments)
       /\ flow' = [flow EXCEPT ![c].pc = "end", ![c].req = increments,
                               ![c].err = IF txs'[c].aborted THEN ErrCodeDatabaseError
                                          ELSE ErrNone]

IncEnd(c) ==
  /\ Running
  /\ flow[c].pc = "end"
  /\ Commit(c)
  /\ flow' = [flow EXCEPT ![c].pc = "done"]

\* Two concurrent increment calls on one key, after calls that made its row.
NextConc ==
  \/ Setup(UpsertProgress(UpsertReqs(K1, TwoValues(now))))
  \/ Setup(MarkAsClaimed(K1))
  \/ \E c \in Txs : IncBegin(c)
  \/ \E c \in Txs : IncExec(c)
  \/ \E c \in Txs : IncExecBatch(c)
  \/ \E c \in Txs : IncEnd(c)

SpecConc == Init /\ [][NextConc]_vars

\* ------------------------------------------------ claim against bulk writes
\* The Commit of a claim workflow; flow[c].given becomes the committed row of
\* FlowKey as that Commit leaves it.
ClaimEnd(c) ==
  /\ Running
  /\ flow[c].pc = "end"
  /\ Commit(c)
  /\ flow' = [flow EXCEPT ![c].pc = "done", ![c].given = table'[FlowKey]]

\* One claim workflow on FlowKey while other callers run bulk upserts and bulk
\* increments on the same key, before, between and after its steps.
NextClaimBulk ==
  \/ Step(BatchUpsertProgress(UpsertReqs(K1, TwoValues(now))))
  \/ Step(BatchUpsertProgressWithCOPY(UpsertReqs(K1, TwoValues(now))))
  \/ Step(BatchIncrementProgress(IncrementReqs(K1, {1}, {2})))
  \/ ClaimBegin("t1")
  \/ ClaimLock("t1")
  \/ ClaimMark("t1")
  \/ ClaimEnd("t1")
  \/ ClaimRollback("t1")

SpecClaimBulk == Init /\ [][NextClaimBulk]_vars

\* ------------------------------------------------------ claim workflows, fair
\* A caller that goes from BeginTx to MarkAsClaimed without reading the row
\* first: its MarkAsClaimed is what waits for the row lock.
ClaimNoLock(c) ==
  /\ Running
  /\ flow[c].pc = "lock"
  /\ flow' = [flow EXCEPT ![c].pc = "claim"]
  /\ UNCHANGED <<table, now, txs, last>>

\* A step of the run that is not under observation.
Live(A) == A /\ last' = Quiet

\* Two claim workflows on one key; every call returns, and a caller that has
\* begun goes on to its next call: a statement that waits for a row lock is
\* run once the lock is free, and a transaction that was begun is committed
\* (or rolled back).
NextRaceLive ==
  \/ Live(Setup(UpsertProgress(UpsertReqs(K1, UpsertValues(now)))))
  \/ \E c \in Txs : Live(ClaimBegin(c))
  \/ \E c \in Txs : Live(ClaimLock(c))
  \/ \E c \in Txs : Live(ClaimNoLock(c))
  \/ \E c \in Txs : Live(ClaimMark(c))
  \/ \E c \in Txs : Live(ClaimCommit(c))
  \/ \E c \in Txs : Live(ClaimRollback(c))

SpecRaceLive ==
  /\ Init
  /\ [][NextRaceLive]_vars
  /\ \A c \in Txs : /\ WF_vars(Live(ClaimLock(c)))
                    /\ WF_vars(Live(ClaimMark(c)))
                    /\ WF_vars(Live(ClaimCommit(c)))

\* ------------------------------------------------------------- properties
\* The rows the connection of the observed call sees after it.
After == View(last.tx)

\* The keys the observed call named.
Named == KeysOf(last.req)

BulkOps == {"BatchUpsertProgress", "BatchUpsertProgressWithCOPY", "BatchIncrementProgress"}

SameProgress(a, b) ==
  a.progress = b.progress /\ a.status = b.status /\ a.completedAt = b.completedAt

BothDone == \A c \in Txs : flow[c].pc = "done"

\* Exactly one workflow's MarkAsClaimed returned nil, the other's returned the
\* precondition error, and the committed row is claimed.
OneWinner ==
  /\ \E c \in Txs :
       /\ flow[c].err = ErrNone
       /\ \A o \in Txs \ {c} : flow[o].err = ErrCodeGoalNotCompleted
  /\ table[FlowKey].status = GoalStatusClaimed

\* C1 as stated: two claim workflows (BeginTx, GetProgressForUpdate,
\* MarkAsClaimed, Commit) that both began on a committed record with
\* status=completed and claimedAt null end with exactly one MarkAsClaimed
\* succeeding, the record claimed, and the other failing with the precondition
\* error. Refuted by a record that is completed with completedAt null.
C1_AsStated ==
  (BothDone /\ \A c \in Txs : ClaimGuard(flow[c].given)) => OneWinner

\* C1, amended: when the record the two claim workflows began on is
\* completed, unclaimed and has completedAt set, then under every interleaving
\* exactly one MarkAsClaimed succeeds, the record ends claimed and the other
\* fails with the precondition error; and in no run do both succeed.
C1_ClaimRaceExclusive ==
  /\ ~(\A c \in Txs : flow[c].err = ErrNone)
  /\ (BothDone /\ \A c \in Txs : ClaimGuard(flow[c].given) /\ flow[c].given.completedAt # NULL)
       => OneWinner

C1_Witness ==
  /\ BothDone
  /\ \A c \in Txs : ClaimGuard(flow[c].given) /\ flow[c].given.completedAt # NULL
  /\ flow["t2"].err = ErrNone
  /\ flow["t1"].err = ErrCodeGoalNotCompleted
  /\ table[FlowKey].status = GoalStatusClaimed

\* C2: a bulk upsert (BatchUpsertProgress, BatchUpsertProgressWithCOPY) or bulk
\* increment (BatchIncrementProgress) leaves progress, status and completedAt
\* of every record that was claimed before the call as they were, whatever
\* the batch holds.
C2_ClaimedImmutable ==
  last.op \in BulkOps =>
    \A k \in Keys :
      (last.before[k].exists /\ last.before[k].status = GoalStatusClaimed)
        => SameProgress(After[k], last.before[k])

C2_Witness ==
  /\ last.op = "BatchIncrementProgress"
  /\ last.err = ErrNone
  /\ \E k \in Named : last.before[k].exists /\ last.before[k].status = GoalStatusClaimed

\* C3: a record that is claimed before a call of the store, made directly or
\* in a transaction, is claimed after it, and a record that is claimed in the
\* committed rows is claimed after a Commit or Rollback: nothing leaves claimed.
C3_ClaimedIsTerminal ==
  last.op # "-" =>
    \A k \in Keys :
      (last.before[k].exists /\ last.before[k].status = GoalStatusClaimed)
        => After[k].status = GoalStatusClaimed

\* A committed transaction that changed a claimed record (its gate).
C3_Witness ==
  /\ last.op = "Commit"
  /\ last.err = ErrNone
  /\ last.before[FlowKey].status = GoalStatusClaimed
  /\ table[FlowKey] # last.before[FlowKey]

\* C4 as stated, for the calls that return no error: after a
\* BatchUpsertProgressWithCOPY whose batch names an existing record with
\* isActive=false, that record's progress, status and completedAt are what
\* they were. The merge has no is_active test: the record is overwritten.
C4_InactiveUntouchedByCOPY ==
  (last.op = "BatchUpsertProgressWithCOPY" /\ last.err = ErrNone) =>
    \A k \in Named :
      (last.before[k].exists /\ ~last.before[k].isActive)
        => SameProgress(After[k], last.before[k])

\* C5 as stated, for the calls that return no error: after a
\* BatchIncrementProgress whose batch names an existing record with
\* isActive=false, that record's progress, status and completedAt are what
\* they were. The statement has no is_active test: the record is incremented.
C5_InactiveUntouchedByIncrement ==
  (last.op = "BatchIncrementProgress" /\ last.err = ErrNone) =>
    \A k \in Named :
      (last.before[k].exists /\ ~last.before[k].isActive)
        => SameProgress(After[k], last.before[k])

\* C6 as stated, first half: on a record that is not claimed and whose gate is
\* closed (isActive=false: the last setActive on it was setActive(false)), a
\* bulk upsert or bulk increment naming it has no effect on progress and
\* status. The bulk statements ignore the gate.
C6_ClosedGateBlocksBulk ==
  last.op \in BulkOps =>
    \A k \in Named :
      (/\ last.before[k].exists
       /\ ~last.before[k].isActive
       /\ last.before[k].status # GoalStatusClaimed)
        => /\ After[k].progress = last.before[k].progress
           /\ After[k].status = last.before[k].status

\* C7 as stated, for a record whose completedAt is set: MarkAsClaimed on a
\* record with status=completed, claimedAt null and isActive=false fails with
\* the precondition error and leaves the record completed and unclaimed.
\* MarkAsClaimed does not look at is_active: the record is claimed.
C7_InactiveClaimFails ==
  last.op = "MarkAsClaimed" =>
    \A k \in Named :
      (/\ ClaimGuard(last.before[k])
       /\ last.before[k].completedAt # NULL
       /\ ~last.before[k].isActive)
        => /\ last.err = ErrCodeGoalNotCompleted
           /\ After[k].status = GoalStatusCompleted
           /\ After[k].claimedAt = NULL

\* C8: MarkAsClaimed, called directly or as the step of a claim workflow, on
\* a key whose row is missing, not completed or already claimed returns
\* GOAL_NOT_COMPLETED, which is not DATABASE_ERROR, and changes no row its
\* connection sees; and when the workflow then commits, the committed rows are
\* what they were.
C8_PreconditionError ==
  /\ ErrCodeGoalNotCompleted # ErrCodeDatabaseError
  /\ last.op = "MarkAsClaimed" =>
       \A k \in Named :
         ~ClaimGuard(last.before[k])
           => /\ last.err = ErrCodeGoalNotCompleted
              /\ After = last.before
              /\ (last.tx = Direct => table = last.before)
  /\ (last.op = "Commit" /\ flow[last.tx].err = ErrCodeGoalNotCompleted)
       => table = last.before

\* A workflow on a missing row: MarkAsClaimed failed, the caller committed.
C8_Witness ==
  /\ last.op = "Commit"
  /\ last.err = ErrNone
  /\ flow[last.tx].err = ErrCodeGoalNotCompleted
  /\ ~flow[last.tx].given.exists

\* C9: a MarkAsClaimed that returns nil sets status=claimed, claimedAt=now and
\* updatedAt=now on the record it names, leaves every other field of that
\* record (progress, completedAt, isActive, assignedAt, challengeID,
\* namespace) and every other record as they were.
C9_ClaimFrame ==
  (last.op = "MarkAsClaimed" /\ last.err = ErrNone) =>
    \A k \in Named :
      /\ After[k] = [last.before[k] EXCEPT !.status = GoalStatusClaimed,
                                           !.claimedAt = last.at,
                                           !.updatedAt = last.at]
      /\ last.at = now
      /\ \A j \in Keys \ {k} : After[j] = last.before[j]

\* A claim at a later time than the record's completion, on an inactive
\* record, with another record in the table.
C9_Witness ==
  /\ last.op = "MarkAsClaimed"
  /\ last.err = ErrNone
  /\ \E k \in Named :
       /\ last.before[k].completedAt < last.at
       /\ ~last.before[k].isActive
       /\ \E j \in Keys \ {k} : last.before[j].exists

\* C10: in every committed state, a record whose claimedAt is set has its
\* completedAt set.
C10_ClaimedImpliesCompleted ==
  \A k \in Keys : table[k].claimedAt # NULL => table[k].completedAt # NULL

\* A transaction that claimed the record has committed.
C10_Witness ==
  /\ last.op = "Commit"
  /\ last.err = ErrNone
  /\ last.before[FlowKey].claimedAt = NULL
  /\ table[FlowKey].claimedAt # NULL

\* The one request of the observed call.
TheReq == last.req[1]

\* The observed call is an increment (single or bulk) of one request, daily
\* or not, on a record that is not claimed.
IncrementOf(ops, daily) ==
  /\ last.op \in ops
  /\ Len(last.req) = 1
  /\ TheReq.isDaily = daily
  /\ last.before[TheReq.key].status # GoalStatusClaimed

\* Progress of a record, a missing row counting as 0.
ProgressOf(row) == IF row.exists THEN row.progress ELSE 0

C13_CompletedAtCrossing ==
  (/\ last.op \in {"IncrementProgress", "BatchIncrementProgress"}
   /\ Len(last.req) = 1
   /\ last.before[TheReq.key].status # GoalStatusClaimed) =>
    LET cur == last.before[TheReq.key]
        new == After[TheReq.key]
        reached == cur.exists /\ cur.progress >= TheReq.targetValue
    IN  /\ last.err = ErrNone /\ new.exists
        /\ (~reached /\ new.progress >= TheReq.targetValue) =>
             /\ cur.exists => (cur.completedAt = NULL /\ cur.status # GoalStatusCompleted)
             /\ new.status = GoalStatusCompleted
             /\ new.completedAt = last.at
        /\ new.progress < TheReq.targetValue =>
             (new.completedAt = NULL /\ new.status # GoalStatusCompleted)
        /\ reached =>
             /\ cur.completedAt # NULL
             /\ new.status = GoalStatusCompleted
             /\ new.completedAt = cur.completedAt

\* An increment, later than the one that completed the record, that left
\* completedAt at the earlier time.
C13_Witness ==
  /\ last.op \in {"IncrementProgress", "BatchIncrementProgress"}
  /\ Len(last.req) = 1
  /\ last.before[TheReq.key].status = GoalStatusCompleted
  /\ last.before[TheReq.key].completedAt < last.at
  /\ After[TheReq.key].progress > last.before[TheReq.key].progress
  /\ After[TheReq.key].completedAt = last.before[TheReq.key].completedAt

\* The operations C14 and C15 list: bulkUpsert, bulkIncrement, setActive, claim.
ListedOps == BulkOps \cup {"UpsertGoalActive", "MarkAsClaimed"}

UpsertOps == {"UpsertProgress", "BatchUpsertProgress", "BatchUpsertProgressWithCOPY"}

\* C14 as stated: no bulkUpsert, bulkIncrement, setActive or claim changes a
\* completedAt that is set. Refuted by a bulkUpsert on a completed record
\* that is not claimed: it stores the completedAt of the request, null or
\* another time.
C14_AsStated ==
  last.op \in ListedOps =>
    \A k \in Keys : (last.before[k].exists /\ last.before[k].completedAt # NULL)
                      => After[k].completedAt = last.before[k].completedAt

\* C14, amended: a completedAt that is set is left as it is by every
\* increment, setActive, claim and BulkInsert call, and by every upsert on a
\* claimed record; a successful upsert of one row on a record that is not
\* claimed stores the completedAt of the request in its place.
C14_CompletedAtKept ==
  \A k \in Keys :
    (last.op # "-" /\ last.before[k].exists /\ last.before[k].completedAt # NULL) =>
      /\ (last.op \notin UpsertOps \/ last.before[k].status = GoalStatusClaimed)
           => After[k].completedAt = last.before[k].completedAt
      /\ (/\ last.op \in UpsertOps /\ last.err = ErrNone /\ Len(last.req) = 1
          /\ TheReq.key = k /\ last.before[k].status # GoalStatusClaimed)
           => After[k].completedAt = TheReq.completedAt

\* A setActive call at a later time on a completed record, which kept its
\* completedAt.
C14_Witness ==
  /\ last.op = "UpsertGoalActive"
  /\ last.err = ErrNone
  /\ last.before[TheReq.key].exists
  /\ last.before[TheReq.key].completedAt # NULL
  /\ last.before[TheReq.key].completedAt < last.at
  /\ After[TheReq.key].updatedAt = last.at
  /\ After[TheReq.key].completedAt = last.before[TheReq.key].completedAt

\* Position of a status in not_started -> in_progress -> completed -> claimed.
Rank(status) ==
  CASE status = GoalStatusNotStarted -> 0
    [] status = GoalStatusInProgress -> 1
    [] status = GoalStatusCompleted -> 2
    [] status = GoalStatusClaimed -> 3
    [] OTHER -> -1

\* C15 as stated: no bulkUpsert, bulkIncrement, setActive or claim moves the
\* status of a record backwards. Refuted by a bulkUpsert with status
\* in_progress on a completed record that is not claimed.
C15_AsStated ==
  last.op \in ListedOps =>
    \A k \in Keys : last.before[k].exists =>
                      Rank(After[k].status) >= Rank(last.before[k].status)

\* C15, amended: no bulkIncrement (against a targetValue that a completed
\* record's progress has reached), setActive or claim moves the status of a
\* record backwards, and no operation moves the status of a claimed record;
\* a successful bulkUpsert of one row on a record that is not claimed sets
\* the status of the request, whatever the status was.
C15_StatusMonotonic ==
  \A k \in Keys :
    (last.op # "-" /\ last.before[k].exists) =>
      /\ (/\ last.op \in {"BatchIncrementProgress", "UpsertGoalActive", "MarkAsClaimed"}
          /\ (last.op = "BatchIncrementProgress" /\ Len(last.req) = 1
                /\ last.before[k].status = GoalStatusCompleted)
               => last.before[k].progress >= TheReq.targetValue)
           => Rank(After[k].status) >= Rank(last.before[k].status)
      /\ last.before[k].status = GoalStatusClaimed => After[k].status = GoalStatusClaimed
      /\ (/\ last.op \in {"BatchUpsertProgress", "BatchUpsertProgressWithCOPY"}
          /\ last.err = ErrNone /\ Len(last.req) = 1 /\ TheReq.key = k
          /\ last.before[k].status # GoalStatusClaimed)
           => After[k].status = TheReq.status

\* A bulkIncrement that moved a record forward from in_progress to completed.
C15_Witness ==
  /\ last.op = "BatchIncrementProgress"
  /\ Len(last.req) = 1
  /\ last.before[TheReq.key].status = GoalStatusInProgress
  /\ After[TheReq.key].status = GoalStatusCompleted

\* The request of the observed bulk upsert for key k (one per key when the
\* keys of the batch are distinct).
RowFor(k) == last.req[CHOOSE i \in 1..Len(last.req) : last.req[i].key = k]

DistinctKeys == \A i, j \in 1..Len(last.req) : last.req[i].key = last.req[j].key => i = j

\* C16: a BatchUpsertProgressWithCOPY or BatchIncrementProgress call that
\* returns an error, because a statement failed or because its context was
\* cancelled at begin, staging-table creation, bulk load, merge or commit,
\* leaves the table exactly as it was before the call; a call that returns no
\* error has applied every row of the batch that is not skipped (claimed):
\* the upserted records carry the values of the request and the incremented
\* records exist, with their progress raised when the increments are not
\* daily.
C16_BulkAtomic ==
  (last.op \in {"BatchUpsertProgressWithCOPY", "BatchIncrementProgress"} /\ last.tx = Direct) =>
    /\ last.err # ErrNone => table = last.before
    /\ last.err = ErrNone =>
         \A k \in Named :
           IF last.before[k].status = GoalStatusClaimed
           THEN table[k] = last.before[k]
           ELSE /\ table[k].exists
                /\ last.op = "BatchUpsertProgressWithCOPY" => SameProgress(table[k], RowFor(k))
                /\ (/\ last.op = "BatchIncrementProgress"
                    /\ \A i \in 1..Len(last.req) : ~last.req[i].isDaily) =>
                     table[k].progress > ProgressOf(last.before[k])

\* A failed bulk upsert of two rows whose first row alone would have been
\* applied: nothing of it is in the table.
C16_Witness ==
  /\ last.op = "BatchUpsertProgressWithCOPY"
  /\ last.err # ErrNone
  /\ Len(last.req) = 2
  /\ DistinctKeys
  /\ CopyMergeStmt(last.before, <<last.req[1]>>, last.at).ok
  /\ CopyMergeStmt(last.before, <<last.req[1]>>, last.at).tbl # last.before
  /\ table = last.before

\* C17: a call on a PostgresTxRepository (any step that changes the state of
\* transaction c) leaves the committed rows, which every other connection
\* reads, as they are, unless it is the Commit of an open transaction that no
\* statement aborted, which publishes exactly the writes of the transaction;
\* Rollback leaves the committed rows as they are and ends the transaction
\* with its writes dropped. So until Commit nothing a transaction did is
\* visible outside it, and after Rollback the store holds what it held at
\* BeginTx (plus what other connections committed meanwhile).
C17_TxIsolation ==
  [][ /\ \A c \in Txs :
           txs'[c] # txs[c] =>
             \/ table' = table
             \/ /\ txs[c].state = "open" /\ ~txs[c].aborted
                /\ last'.op \in {"-", "Commit"}
                /\ txs'[c] = Ended
                /\ table' = ViewOf(table, txs[c])
      /\ last'.op = "Rollback" => (table' = table /\ txs'[last'.tx] = Ended)
    ]_vars

\* A write through the transaction that the transaction sees and the
\* committed rows do not show.
C17_Witness ==
  /\ last.tx = "t1"
  /\ last.op \in {"UpsertProgress", "BatchUpsertProgress", "IncrementProgress", "MarkAsClaimed"}
  /\ last.err = ErrNone
  /\ txs["t1"].written # {}
  /\ After # last.before
  /\ After # table

\* C18: a BatchUpsertProgress, BatchUpsertProgressWithCOPY or
\* BatchIncrementProgress call with an empty batch, on the repository or
\* inside a transaction (also one that a failed statement has aborted, where
\* any statement would fail), returns no error and changes nothing: not the
\* committed rows, not the transaction's writes, locks or staged rows.
C18_EmptyBatchNoOp ==
  [][ (last'.op \in BulkOps /\ last'.req = NoReq) =>
        /\ last'.err = ErrNone
        /\ table' = table
        /\ txs' = txs
    ]_vars

\* An empty batch inside an aborted transaction, which returned no error.
C18_Witness ==
  /\ last.op \in BulkOps
  /\ last.req = NoReq
  /\ last.tx = "t1"
  /\ txs["t1"].aborted
  /\ last.err = ErrNone

\* The observed call is a bulk upsert on the repository whose batch names at
\* least one claimed record and at least one record that is not claimed, the
\* keys distinct and every row acceptable to the table's CHECK constraints.
MixedBatch ==
  /\ last.op \in {"BatchUpsertProgress", "BatchUpsertProgressWithCOPY"}
  /\ last.tx = Direct
  /\ DistinctKeys
  /\ \E k \in Named : last.before[k].status = GoalStatusClaimed
  /\ \E k \in Named : last.before[k].status # GoalStatusClaimed
  /\ \A i \in 1..Len(last.req) : CheckConstraints(UpsertProposed(last.req[i], last.at))

\* C19: a bulk upsert whose batch mixes claimed keys with other keys returns
\* no error (BatchUpsertProgressWithCOPY: whenever its context stays live),
\* leaves every claimed record of the batch as it was, and leaves every other
\* record of the batch with the progress, status and completedAt of its row,
\* inserted if it was missing and overwritten if it was there.
C19_MixedBatchPartialApply ==
  MixedBatch =>
    /\ last.op = "BatchUpsertProgress" => last.err = ErrNone
    /\ CopyRun(last.before, last.req, last.at, CtxLive).ok
    /\ last.err = ErrNone =>
         \A k \in Named :
           IF last.before[k].status = GoalStatusClaimed
           THEN table[k] = last.before[k]
           ELSE table[k].exists /\ SameProgress(table[k], RowFor(k))

\* A batch of a claimed key and a missing key: the first skipped, the second
\* inserted.
C19_Witness ==
  /\ MixedBatch
  /\ last.op = "BatchUpsertProgress"
  /\ last.err = ErrNone
  /\ \E k \in Named : ~last.before[k].exists /\ table[k].exists
  /\ \E k \in Named : /\ last.before[k].status = GoalStatusClaimed
                      /\ ~SameProgress(last.before[k], RowFor(k))
                      /\ table[k] = last.before[k]

\* The batches the callers of the bulk upserts pass at the current time.
Batches == SeqsUpTo(UpsertReqs(Keys, BatchValues(now)), MaxBatch)

\* The two calls end alike on the table as it is: both without an error or
\* both with one, and with the same rows.
SameOutcome(updates, others) ==
  LET a == BatchUpsertCall(table, updates, others, now)
      b == CopyCall(table, updates, others, now)
  IN  a.ok = b.ok /\ a.tbl = b.tbl

MutationOps ==
  {"UpsertProgress", "BatchUpsertProgress", "BatchUpsertProgressWithCOPY",
   "IncrementProgress", "BatchIncrementProgress", "UpsertGoalActive", "MarkAsClaimed"}

\* What the operation `op` of PostgresGoalRepository does with the request
\* `req` on the rows tbl at time t: the statement its method runs.
DirectOutcome(op, tbl, req, t) ==
  CASE op = "UpsertProgress" -> UpsertStmt(tbl, req[1], t)
    [] op = "BatchUpsertProgress" ->
         IF Len(req) = 0 THEN StmtOK(tbl, 0) ELSE BatchUpsertStmt(tbl, req, t)
    [] op = "BatchUpsertProgressWithCOPY" ->
         IF Len(req) = 0 THEN StmtOK(tbl, 0) ELSE CopyMergeStmt(tbl, req, t)
    [] op = "IncrementProgress" -> IncrementStmt(tbl, req[1], t)
    [] op = "BatchIncrementProgress" ->
         IF Len(req) = 0 THEN StmtOK(tbl, 0) ELSE BatchIncrementStmt(tbl, req, t)
    [] op = "UpsertGoalActive" -> UpsertGoalActiveStmt(tbl, req[1], t)
    [] op = "MarkAsClaimed" -> MarkAsClaimedStmt(tbl, req[1].key, t)

DirectError(op, res) == IF op = "MarkAsClaimed" THEN MarkAsClaimedErr(res) ELSE ErrOf(res)

C22_EndedTxRejects ==
  [][ (/\ last'.op \in {"Commit", "Rollback"}
       /\ last'.tx \in Txs
       /\ txs[last'.tx].state = "done") =>
        /\ last'.err # ErrNone
        /\ table' = table
        /\ txs' = txs
    ]_vars

\* A Rollback that returned an error (it does only on an ended transaction)
\* with rows committed before it, which it left.
C22_Witness ==
  /\ last.op = "Rollback"
  /\ last.err = ErrCodeDatabaseError
  /\ txs[last.tx].state = "done"
  /\ \E k \in Keys : table[k].exists
  /\ table = last.before

\* C23: BeginTx on the PostgresTxRepository of an open transaction returns
\* the error "cannot begin nested transaction" and changes nothing: the
\* committed rows and the transaction (its writes, locks, staged rows and
\* whether a statement aborted it) are as before, so the transaction commits
\* or rolls back as it would have.
C23_NestedBeginFails ==
  [][ (/\ last'.op = "BeginTx"
       /\ last'.tx \in Txs
       /\ txs[last'.tx].state = "open") =>
        /\ last'.err = ErrNestedTx
        /\ table' = table
        /\ txs' = txs
    ]_vars

\* A nested BeginTx on a transaction with a pending write, which is still
\* open, not aborted, and still holds the write.
C23_Witness ==
  /\ last.op = "BeginTx"
  /\ last.err = ErrNestedTx
  /\ txs[last.tx].state = "open"
  /\ ~txs[last.tx].aborted
  /\ txs[last.tx].written # {}
  /\ After # table

\* C24: an UpsertGoalActive on a key with no row, by a caller that supplies
\* no status and no assignedAt, returns no error and creates the row with
\* progress 0 and status not_started, with isActive as requested and
\* assignedAt = the time of the call when isActive is true and null when it
\* is false.
C24_ActivateCreatesDefaults ==
  (/\ last.op = "UpsertGoalActive"
   /\ ~last.before[TheReq.key].exists
   /\ TheReq.status = "" /\ TheReq.assignedAt = NULL) =>
    LET new == After[TheReq.key]
    IN  /\ last.err = ErrNone
        /\ new.exists
        /\ new.progress = 0
        /\ new.status = GoalStatusNotStarted
        /\ new.isActive = TheReq.isActive
        /\ new.assignedAt = IF TheReq.isActive THEN last.at ELSE NULL

\* C25: an UpsertGoalActive on an existing record, by a caller that names
\* the key and isActive and supplies no status (as the callers of the tests
\* do), returns no error and leaves assignedAt = the time of the call when
\* isActive is true, and assignedAt as it was when isActive is false.
C25_AssignedAtOnToggle ==
  (/\ last.op = "UpsertGoalActive"
   /\ last.before[TheReq.key].exists
   /\ TheReq.status = "") =>
    /\ last.err = ErrNone
    /\ After[TheReq.key].assignedAt =
         IF TheReq.isActive THEN last.at ELSE last.before[TheReq.key].assignedAt

\* C26: an UpsertGoalActive on an existing record leaves its progress,
\* status, completedAt and claimedAt as they were, whatever the status of the
\* record (claimed too) and whatever progress and status the caller passes;
\* a call that returns no error leaves isActive as requested and updatedAt =
\* the time of the call.
C26_ToggleFrame ==
  (last.op = "UpsertGoalActive" /\ last.before[TheReq.key].exists) =>
    LET cur == last.before[TheReq.key]
        new == After[TheReq.key]
    IN  /\ new.exists
        /\ new.progress = cur.progress
        /\ new.status = cur.status
        /\ new.completedAt = cur.completedAt
        /\ new.claimedAt = cur.claimedAt
        /\ last.err = ErrNone => (new.isActive = TheReq.isActive /\ new.updatedAt = last.at)
        /\ \A k \in Keys \ {TheReq.key} : After[k] = last.before[k]

\* A toggle on a claimed record, by a caller passing another progress and
\* status, that flipped isActive.
C26_Witness ==
  /\ last.op = "UpsertGoalActive"
  /\ last.err = ErrNone
  /\ last.before[TheReq.key].status = GoalStatusClaimed
  /\ TheReq.status # GoalStatusClaimed
  /\ TheReq.progress # last.before[TheReq.key].progress
  /\ After[TheReq.key].isActive # last.before[TheReq.key].isActive
  /\ After[TheReq.key].status = GoalStatusClaimed

\* C27, for the calls that return no error: after an UpsertProgress or an
\* IncrementProgress (regular or daily) on an existing record with
\* isActive=false, the record's progress, status and completedAt are what
\* they were. The single-row statements have no is_active test: the record
\* is written.
C27_InactiveUntouchedBySingle ==
  (/\ last.op \in {"UpsertProgress", "IncrementProgress"}
   /\ last.err = ErrNone
   /\ last.before[TheReq.key].exists
   /\ ~last.before[TheReq.key].isActive) =>
    SameProgress(After[TheReq.key], last.before[TheReq.key])

\* The observed call is a daily IncrementProgress on an existing record
\* that was last updated on the UTC date of the call.
SameDayAttempt ==
  /\ last.op = "IncrementProgress"
  /\ TheReq.isDaily
  /\ last.before[TheReq.key].exists
  /\ SameDay(last.before[TheReq.key], last.at)

\* C28 as stated: a daily increment on a record already updated on the
\* current UTC date leaves progress, status and completedAt as they were and
\* sets updatedAt to the time of the attempt. Refuted by a not_started
\* record, whose status becomes in_progress, and by a claimed record, whose
\* updatedAt stays.
C28_AsStated ==
  SameDayAttempt =>
    /\ SameProgress(After[TheReq.key], last.before[TheReq.key])
    /\ After[TheReq.key].updatedAt = last.at

\* C28, amended: a daily IncrementProgress on a record already updated on
\* the current UTC date returns no error; on a record that is not claimed it
\* leaves progress and completedAt (and isActive, assignedAt, claimedAt) as
\* they were, sets updatedAt to the time of the attempt, and sets status to
\* the one derived from the unchanged progress and the call's targetValue,
\* which is the status the record had when that was already the derived one;
\* a claimed record is left as it was, updatedAt included.
C28_SameDayFrame ==
  SameDayAttempt =>
    LET cur == last.before[TheReq.key]
        new == After[TheReq.key]
    IN  /\ last.err = ErrNone
        /\ cur.status # GoalStatusClaimed =>
             /\ new = [cur EXCEPT !.status = StatusFor(cur.progress, TheReq.targetValue),
                                  !.updatedAt = last.at]
             /\ cur.status = StatusFor(cur.progress, TheReq.targetValue) =>
                  SameProgress(new, cur)
        /\ cur.status = GoalStatusClaimed => new = cur

\* A same-day daily attempt at a later tick of the day on a record that is in
\* progress: only updatedAt moved.
C28_Witness ==
  /\ SameDayAttempt
  /\ last.before[TheReq.key].status = GoalStatusInProgress
  /\ last.before[TheReq.key].updatedAt < last.at
  /\ After[TheReq.key].updatedAt = last.at
  /\ SameProgress(After[TheReq.key], last.before[TheReq.key])

\* What call c added to the progress of FlowKey: the delta of its request
\* when it returned nil on a non-empty request, nothing otherwise.
Added(c) ==
  IF flow[c].err = ErrNone /\ Len(flow[c].req) > 0 THEN flow[c].req[1].delta ELSE 0

RECURSIVE SumAdded(_)
SumAdded(S) ==
  IF S = {} THEN 0
  ELSE LET c == CHOOSE x \in S : TRUE IN Added(c) + SumAdded(S \ {c})

\* The committed row of FlowKey when the first of the concurrent calls began.
Initial == flow[CHOOSE c \in Txs : TRUE].given

\* C29 as stated: when the concurrent non-daily increments of one key have
\* all returned, progress = initial progress + the sum of all their deltas (a
\* missing row counting as 0). Refuted by a claimed record, which every
\* increment skips, and by a negative delta, whose call fails.
C29_AsStated ==
  BothDone =>
    ProgressOf(table[FlowKey]) =
      ProgressOf(Initial)
        + (IF Len(flow["t1"].req) > 0 THEN flow["t1"].req[1].delta ELSE 0)
        + (IF Len(flow["t2"].req) > 0 THEN flow["t2"].req[1].delta ELSE 0)

\* C29, amended: on a key whose record is missing or not claimed, when the
\* concurrent non-daily IncrementProgress and BatchIncrementProgress calls
\* have all returned, in whatever order their statements and commits were
\* interleaved, progress = initial progress + the sum of the deltas of the
\* calls that returned no error (a call with a negative delta, or a batch
\* naming the key twice, returns an error and adds nothing).
C29_NoLostUpdate ==
  (BothDone /\ Initial.status # GoalStatusClaimed) =>
    ProgressOf(table[FlowKey]) = ProgressOf(Initial) + SumAdded(Txs)

\* Two concurrent calls on a key with no row yet both returned nil, and the
\* row holds both deltas.
C29_Witness ==
  /\ BothDone
  /\ ~Initial.exists
  /\ \A c \in Txs : flow[c].err = ErrNone /\ Len(flow[c].req) = 1
  /\ table[FlowKey].progress = flow["t1"].req[1].delta + flow["t2"].req[1].delta

\* The observed call is a bulk upsert on the repository.
BulkUpsertCall ==
  /\ last.op \in {"BatchUpsertProgress", "BatchUpsertProgressWithCOPY"}
  /\ last.tx = Direct

\* The same batch applied again by the same operation at time t, on the rows
\* the observed call left.
Retry(t) ==
  IF last.op = "BatchUpsertProgress" THEN BatchUpsertStmt(table, last.req, t)
  ELSE CopyRun(table, last.req, t, CtxLive)

\* C30: after a bulk upsert (BatchUpsertProgress or
\* BatchUpsertProgressWithCOPY) that returned no error, applying the same
\* batch again, at the same time or later, returns no error and leaves every
\* record with the progress, status and completedAt the first application
\* left; a bulk upsert that returned an error left the table as it was, so
\* its retry starts from the state the first attempt started from.
C30_RetrySafe ==
  BulkUpsertCall =>
    /\ last.err = ErrNone =>
         \A t \in last.at..MaxTime :
           /\ Retry(t).ok
           /\ \A k \in Keys : /\ Retry(t).tbl[k].exists = table[k].exists
                              /\ SameProgress(Retry(t).tbl[k], table[k])
    /\ last.err # ErrNone => table = last.before

\* A batch of two rows that changed both records, and whose retry at a later
\* time writes them again (updatedAt moves) with the same progress, status
\* and completedAt.
C30_Witness ==
  /\ BulkUpsertCall
  /\ last.err = ErrNone
  /\ Len(last.req) = 2
  /\ \A k \in Keys : ~SameProgress(table[k], last.before[k])
  /\ Retry(MaxTime).ok
  /\ Retry(MaxTime).tbl # table
  /\ \A k \in Keys : SameProgress(Retry(MaxTime).tbl[k], table[k])

\* The observed call is a BatchIncrementProgress on the repository.
BulkIncrementCall == last.op = "BatchIncrementProgress" /\ last.tx = Direct

\* The same increments applied again at time t on the rows the observed call
\* left.
IncrementRetry(t) == BatchIncrementStmt(table, last.req, t)

AllDaily == \A i \in 1..Len(last.req) : last.req[i].isDaily

NoneDaily == \A i \in 1..Len(last.req) : ~last.req[i].isDaily

\* C31 as stated: after a BatchIncrementProgress (daily or non-daily
\* requests) that returned no error, applying the same call again leaves
\* every record with the progress, status and completedAt of the first
\* application. Refuted by a non-daily request, whose retry adds delta again.
C31_AsStated ==
  (BulkIncrementCall /\ last.err = ErrNone) =>
    \A t \in last.at..MaxTime :
      \A k \in Keys : SameProgress(IncrementRetry(t).tbl[k], table[k])

\* C31, amended: after a BatchIncrementProgress of daily requests that
\* returned no error, applying the same call again on the same UTC date
\* returns no error and leaves every record with the progress, status and
\* completedAt of the first application; a call that returned an error left
\* the table as it was; and the retry of a one-request non-daily call on a
\* record that is not claimed adds delta a second time.
C31_DailyRetrySafe ==
  BulkIncrementCall =>
    /\ (last.err = ErrNone /\ AllDaily) =>
         \A t \in last.at..MaxTime :
           DateUTC(t) = DateUTC(last.at) =>
             /\ IncrementRetry(t).ok
             /\ \A k \in Keys : /\ IncrementRetry(t).tbl[k].exists = table[k].exists
                                /\ SameProgress(IncrementRetry(t).tbl[k], table[k])
    /\ last.err # ErrNone => table = last.before
    /\ (/\ last.err = ErrNone /\ Len(last.req) = 1 /\ NoneDaily
        /\ table[TheReq.key].status # GoalStatusClaimed) =>
         \A t \in last.at..MaxTime :
           IncrementRetry(t).tbl[TheReq.key].progress
             = table[TheReq.key].progress + TheReq.delta

\* A daily batch that raised the progress of a record last updated on an
\* earlier date, and whose retry on the date of the call leaves that progress.
C31_Witness ==
  /\ BulkIncrementCall
  /\ last.err = ErrNone
  /\ AllDaily
  /\ Len(last.req) >= 1
  /\ \E k \in Named : /\ last.before[k].exists
                      /\ table[k].progress > last.before[k].progress
                      /\ IncrementRetry(last.at).tbl[k].progress = table[k].progress
                      /\ IncrementRetry(last.at).tbl[k] # NoRow

\* The observed IncrementProgress passes a delta that, applied to the record,
\* takes progress below 0: a non-daily increment (on a missing row the delta
\* is the inserted progress), or a daily increment on a record that is not
\* claimed and was last updated on an earlier UTC date.
IncrementBelowZero ==
  /\ last.op = "IncrementProgress"
  /\ ProgressOf(last.before[TheReq.key]) + TheReq.delta < 0
  /\ \/ ~TheReq.isDaily
     \/ /\ last.before[TheReq.key].exists
        /\ last.before[TheReq.key].status # GoalStatusClaimed
        /\ ~SameDay(last.before[TheReq.key], last.at)

\* C32: every record of the committed table has progress >= 0; an
\* UpsertProgress, BatchUpsertProgress or BatchUpsertProgressWithCOPY with a
\* row of negative progress, and an IncrementProgress whose delta would take
\* progress below 0, return DATABASE_ERROR and leave the table as it was.
C32_ProgressNonNegative ==
  /\ \A k \in Keys : table[k].exists => table[k].progress >= 0
  /\ (last.op \in UpsertOps /\ \E i \in 1..Len(last.req) : last.req[i].progress < 0) =>
       (last.err = ErrCodeDatabaseError /\ table = last.before)
  /\ IncrementBelowZero => (last.err = ErrCodeDatabaseError /\ table = last.before)

\* A daily increment of -1 on a record with progress 0 last updated on an
\* earlier date: refused by the CHECK constraint on the updated row.
C32_Witness ==
  /\ IncrementBelowZero
  /\ TheReq.isDaily
  /\ last.before[TheReq.key].progress = 0
  /\ last.err = ErrCodeDatabaseError
  /\ table = last.before

\* C33: a BatchUpsertProgressWithCOPY call inside a transaction that
\* returns no error leaves the transaction holding the rows that the merge of
\* its own batch leaves, whatever the transaction staged before. The staging
\* table is created IF NOT EXISTS and dropped at commit only, so a second call
\* merges the rows of the first call again: a row the first call wrote and
\* another operation of the transaction then changed is set back.
C33_OwnBatchOnly ==
  (/\ last.op = "BatchUpsertProgressWithCOPY"
   /\ last.tx = "t1"
   /\ last.err = ErrNone) =>
    After = DirectOutcome(last.op, last.before, last.req, last.at).tbl

\* C34: after a BatchIncrementProgress of requests on distinct keys that
\* returned no error, every existing record named by the batch is what the
\* request for its own (user, goal) alone leaves: its delta, targetValue and
\* daily flag were applied. The subqueries of the DO UPDATE match the
\* requests by goal ID only, so a row takes the values of the first request
\* with its goal, which may be another user's.
C34_OwnRequestApplied ==
  (BulkIncrementCall /\ last.err = ErrNone /\ DistinctKeys) =>
    \A k \in Named :
      last.before[k].exists =>
        table[k] = BatchIncrementStmt(last.before, <<RowFor(k)>>, last.at).tbl[k]

\* C35: a daily increment (IncrementProgress or BatchIncrementProgress of
\* one request) on an existing, active record that is still not_started adds
\* delta to its progress. Where the only writers are increments, setActive
\* and claim, a not_started record has never been incremented (every
\* increment leaves in_progress or completed), so no daily increment was
\* applied to it on the date of the call. The statement compares the date of
\* updated_at, which every write refreshes: after a setActive on the same
\* date the daily increment adds nothing.
C35_DailyAfterRefresh ==
  (/\ IncrementOf({"IncrementProgress", "BatchIncrementProgress"}, TRUE)
   /\ last.before[TheReq.key].exists
   /\ last.before[TheReq.key].isActive
   /\ last.before[TheReq.key].status = GoalStatusNotStarted) =>
    After[TheReq.key].progress = last.before[TheReq.key].progress + TheReq.delta

\* C36: an IncrementProgress call returns what a BatchIncrementProgress of
\* its one request returns on the same rows, and leaves every record with
\* the same progress, status and completedAt. incrementProgressDaily inserts
\* a missing row with progress 1 whatever the delta, where the batch inserts
\* progress = delta.
C36_SingleEqualsBatchOfOne ==
  (last.op = "IncrementProgress" /\ last.tx = Direct) =>
    LET b == BatchIncrementStmt(last.before, last.req, last.at)
    IN  /\ last.err = ErrOf(b)
        /\ \A k \in Keys : /\ table[k].exists = b.tbl[k].exists
                           /\ SameProgress(table[k], b.tbl[k])

\* C37 as stated: in every committed state a record has status claimed if
\* and only if its claimedAt is set. Refuted by an UpsertProgress that creates
\* a row with status claimed (claimedAt stays null) and by a BulkInsert of a
\* completed row that carries a claimedAt.
C37_AsStated ==
  \A k \in Keys :
    table[k].exists => (table[k].status = GoalStatusClaimed <=> table[k].claimedAt # NULL)

\* C37, amended: a MarkAsClaimed that returns no error sets status claimed
\* and claimedAt = now together, on a record whose claimedAt was null; a
\* record with status claimed and claimedAt set keeps both under every
\* operation; and every operation other than MarkAsClaimed and BulkInsert
\* leaves claimedAt as it was, null for a row it creates, so an upsert with
\* status claimed makes a claimed row without claimedAt.
C37_ClaimedAtByClaim ==
  last.op # "-" =>
    \A k \in Keys :
      /\ (last.op = "MarkAsClaimed" /\ last.err = ErrNone /\ k \in Named) =>
           /\ last.before[k].claimedAt = NULL
           /\ After[k].status = GoalStatusClaimed
           /\ After[k].claimedAt = last.at
      /\ (last.before[k].status = GoalStatusClaimed /\ last.before[k].claimedAt # NULL) =>
           /\ After[k].status = GoalStatusClaimed
           /\ After[k].claimedAt = last.before[k].claimedAt
      /\ last.op \notin {"MarkAsClaimed", "BulkInsert"} =>
           After[k].claimedAt = last.before[k].claimedAt

\* An UpsertProgress that created a row with status claimed: its claimedAt
\* is null.
C37_Witness ==
  /\ last.op = "UpsertProgress"
  /\ last.err = ErrNone
  /\ ~last.before[TheReq.key].exists
  /\ After[TheReq.key].status = GoalStatusClaimed
  /\ After[TheReq.key].claimedAt = NULL

\* The keys the observed batch names more than once.
Repeated ==
  {k \in Named : \E i, j \in 1..Len(last.req) :
                   i # j /\ last.req[i].key = k /\ last.req[j].key = k}

\* C38: a BatchUpsertProgress, BatchUpsertProgressWithCOPY or
\* BatchIncrementProgress whose batch names a key more than once either
\* returns DATABASE_ERROR and leaves the table as it was, which it does
\* whenever a repeated key has no row or a row that is not claimed, or
\* returns no error: then every repeated key is a claimed record, left as it
\* was, and every other record of a bulk upsert carries the values of its one
\* request. No call applies one of the requests for a key and not the other.
C38_DuplicatesNeverPartial ==
  (last.op \in BulkOps /\ last.tx = Direct /\ Repeated # {}) =>
    /\ last.err \in {ErrNone, ErrCodeDatabaseError}
    /\ last.err = ErrCodeDatabaseError => table = last.before
    /\ (\E k \in Repeated : last.before[k].status # GoalStatusClaimed) =>
         last.err = ErrCodeDatabaseError
    /\ last.err = ErrNone =>
         \A k \in Named :
           IF k \in Repeated \/ last.before[k].status = GoalStatusClaimed
           THEN table[k] = last.before[k]
           ELSE /\ table[k].exists
                /\ last.op # "BatchIncrementProgress" => SameProgress(table[k], RowFor(k))

\* A BatchIncrementProgress of two requests for one key, the first of which
\* alone would have been applied: the call failed and the table is as it was.
C38_Witness ==
  /\ last.op = "BatchIncrementProgress"
  /\ last.tx = Direct
  /\ Repeated # {}
  /\ last.err = ErrCodeDatabaseError
  /\ BatchIncrementRows(last.before, last.before, <<last.req[1]>>, 1, {}, last.at).ok
  /\ BatchIncrementRows(last.before, last.before, <<last.req[1]>>, 1, {}, last.at).tbl
       # last.before
  /\ table = last.before

\* The claim workflow has ended, its MarkAsClaimed returned no error and its
\* Commit was made.
ClaimSucceeded == flow["t1"].pc = "done" /\ flow["t1"].err = ErrNone

\* C39: once a claim workflow whose MarkAsClaimed succeeded has committed,
\* in every state that follows, whatever bulk upserts and bulk increments ran
\* before, between and after its steps, the record is the one its Commit
\* left: status claimed, claimedAt set, and progress, status, completedAt and
\* claimedAt as they were when the claim committed; and no bulk call wrote
\* the row while the workflow held it.
C39_ClaimSurvivesBulk ==
  /\ ClaimSucceeded =>
       /\ table[FlowKey].status = GoalStatusClaimed
       /\ table[FlowKey].claimedAt # NULL
       /\ SameProgress(table[FlowKey], flow["t1"].given)
       /\ table[FlowKey].claimedAt = flow["t1"].given.claimedAt
  /\ (last.op \in BulkOps /\ txs["t1"].state = "open" /\ FlowKey \in txs["t1"].locks) =>
       table = last.before

\* After the claim committed, a bulk upsert with other values for the record
\* returned no error and the record is as the claim left it.
C39_Witness ==
  /\ ClaimSucceeded
  /\ last.op \in {"BatchUpsertProgress", "BatchUpsertProgressWithCOPY"}
  /\ last.err = ErrNone
  /\ Len(last.req) = 1
  /\ ~SameProgress(RowFor(FlowKey), table[FlowKey])
  /\ last.before[FlowKey].status = GoalStatusClaimed
  /\ table[FlowKey] = flow["t1"].given

\* Workflow c is at step p and the statement of that step waits for the row
\* lock another open transaction holds on FlowKey.
Waiting(c, p) == flow[c].pc = p /\ LockedByOther(FlowKey, c)

\* C40: a transaction keeps every row lock it has taken for as long as it is
\* open; a transaction that Commit or Rollback has ended holds no lock; and a
\* workflow whose GetProgressForUpdate or MarkAsClaimed waits for the lock of
\* another transaction gets past that call, once the holder has committed or
\* rolled back.
C40_LockReleased ==
  /\ [][\A c \in Txs : (txs[c].state = "open" /\ txs'[c].state = "open")
                         => txs[c].locks \subseteq txs'[c].locks]_vars
  /\ [](\A c \in Txs : txs[c].state # "open" => txs[c].locks = {})
  /\ \A c \in Txs : \A p \in {"lock", "claim"} : Waiting(c, p) ~> flow[c].pc # p

\* The first workflow has committed and holds no lock; the second, which had
\* to wait for it, has taken the row lock.
C40_Witness ==
  /\ flow["t1"].pc = "done"
  /\ txs["t1"].locks = {}
  /\ flow["t2"].pc \in {"claim", "end"}
  /\ FlowKey \in txs["t2"].locks
  /\ table[FlowKey].status = GoalStatusClaimed

====
